---- MODULE Spec2Model ----
(***************************************************************************)
(* The read-through K-line reader (DataAPI/TimescaleAPI.py), its intraday  *)
(* router (DataAPI/realtime_updater.py), the candle clock                  *)
(* (DataAPI/kline_time_rules.py) and the trading calendar.                 *)
(*                                                                         *)
(* Dates are day indices (day 0 is a Monday); an instant is                *)
(* day * 1440 + minute of the day.  One symbol (a stock or an index) and   *)
(* one resolution per behaviour; both are chosen in Init.                  *)
(***************************************************************************)
EXTENDS Integers, Sequences, FiniteSets, TLC

VARIABLES
    epoch,          \* [year, doy]: the calendar date of day 0
    holidays,       \* weekdays chinese_calendar reports as not a workday
    today,          \* datetime.now().date()
    clock,          \* datetime.now(): minute of the day
    code,           \* the symbol of the reads: [market, digits], as in sh.600519
    fault,          \* the kind of operation that may fail in this behaviour
    k_type,         \* the resolution of the reads: "60min", "daily", "weekly"
    list_date,      \* stocks.list_date of the symbol (NoDate: NULL / no row)
    hist,           \* stock_kline_<k_type>: the end_ts of the rows of the symbol
    rt,             \* stock_kline_realtime: the datetime of the rows (symbol, k_type)
    conn,           \* self.db_conn: "ok", or "aborted" after a failed statement
    pc,             \* the stage of the read in progress
    req,            \* the arguments of the read: [b, e]
    begin_date,     \* self.begin_date
    end_date,       \* self.end_date
    db_data,        \* get_kl_data's db_data
    missing_ranges, \* get_kl_data's missing_ranges
    gap_i,          \* position of the backfill loop in missing_ranges
    bulk_log,       \* the (start_date, end_date) of the bulk-vendor queries of the read
    ak_calls,       \* number of intraday-vendor calls of the read
    failed,         \* the read raised
    output,         \* the rows the read yielded
    reads,          \* number of reads started
    served,         \* history: the end_ts emitted by a read made on the day of the end_ts
    routed,         \* the last intraday refresh: the vendor rows and where they went
    snap_pc, snap_d, snap_dir, snap_r1, snap_r2,  \* the calendar harness
    rule_pc, rule_res,                            \* the candle-clock harness
    b_pc,           \* batch_import: "entry", "walk", "finish", "done"
    b_args,         \* the arguments of batch_import and the --start-index asked for
    total_stocks,   \* len(all_stocks): the symbols are 0 .. total_stocks - 1 by code
    stocks,         \* the slice walked: [lo, len]
    idx,            \* the position of the walk in the slice, from 1
    bs_session,     \* the bulk vendor holds a session of this process
    bs_log,         \* the bulk-vendor operations of the run, in order
    walked,         \* the symbols the loop has taken up, in order
    success_count,  \* self.success_count
    failed_count,   \* self.failed_count
    failed_stocks,  \* self.failed_stocks
    all_rt,         \* stock_kline_realtime, every symbol: [code, kline_type, datetime]
    deleted_count,  \* the rowcount of the last sweep
    kline_table,    \* stock_kline_daily of one symbol: date -> OHLCV values
    writes,         \* the upserts into kline_table, in order
    is_connect,     \* CTimescaleStockAPI.is_connect: "None" or the login result
    bs_server,      \* the bulk vendor's session of this process
    t_pc,           \* thread -> its position in _fetch_and_save_from_baostock
    t_log,          \* thread -> the vendor calls of its last fetch, in order
    t_n,            \* thread -> the number of calls it has started
    db_conn,        \* self.db_conn: "None", "open" or "closed"
    txn,            \* the transaction of db_conn: "none", "idle", "intrans", "inerror"
    g_pc,           \* the statement of get_kl_data the generator is at
    g_in,           \* what the read meets: its gaps, whether it covers today, its rows
    g_i,            \* the gaps backfilled so far, then the rows yielded so far
    vendor_log,     \* the vendor calls of the read with the transaction state at each
    g_exit          \* how the generator left its body

vars == << epoch, holidays, today, clock, code, fault, k_type, list_date, hist, rt,
           conn, pc, req,
           begin_date, end_date, db_data, missing_ranges, gap_i, bulk_log,
           ak_calls, failed, output, reads, served, routed,
           snap_pc, snap_d, snap_dir, snap_r1, snap_r2, rule_pc, rule_res,
           b_pc, b_args, total_stocks, stocks, idx, bs_session, bs_log, walked,
           success_count, failed_count, failed_stocks, all_rt, deleted_count,
           kline_table, writes, is_connect, bs_server, t_pc, t_log, t_n,
           db_conn, txn, g_pc, g_in, g_i, vendor_log, g_exit >>

calendarVars == << epoch, holidays >>
clockVars    == << today, clock >>
storeVars    == << hist, rt >>
readVars     == << conn, pc, req, begin_date, end_date, db_data, missing_ranges, gap_i,
                   bulk_log, ak_calls, failed, output >>
snapVars     == << snap_pc, snap_d, snap_dir, snap_r1, snap_r2 >>
ruleVars     == << rule_pc, rule_res >>
batchVars    == << b_pc, b_args, total_stocks, stocks, idx, bs_session, bs_log,
                   walked, success_count, failed_count, failed_stocks >>
sweepVars    == << all_rt, deleted_count >>
writeVars    == << kline_table, writes >>
sessVars     == << is_connect, bs_server, t_pc, t_log, t_n >>
connVars     == << db_conn, txn, g_pc, g_in, g_i, vendor_log, g_exit >>
harnessVars  == << sessVars, connVars >>

----------------------------------------------------------------------------
(* Bounds *)

MaxDay == 5
MaxReads == 2
MaxSnapDay == 40

Days == 0 .. MaxDay

\* the instants of a day at which the model lets a read happen:
\* 10:45, 11:31, 15:05
Clocks == << 645, 691, 905 >>

\* the listing dates the registry import may record: a trading day and a Saturday
ListDates == { 2, 5 }

NoDate == -1

----------------------------------------------------------------------------
(* Instants *)

Ts(d, m) == d * 1440 + m
DateOf(ts) == ts \div 1440
Now == Ts(today, clock)

RECURSIVE SortedSeq(_)
SortedSeq(S) ==
    IF S = {} THEN << >>
    ELSE LET m == CHOOSE x \in S : \A y \in S : x <= y
         IN  << m >> \o SortedSeq(S \ {m})

----------------------------------------------------------------------------
(* Trading calendar: TimescaleAPI.py is_trading_day, adjust_to_trading_day *)

SupportedFrom == 2004
SupportedTo == 2026
max_attempts == 30

Weekday(d) == d % 7
YearOf(d) == epoch.year + ((epoch.doy + d) \div 365)

\* the year test left out: the holiday table is consulted for every year
is_trading_day_NoYearFallback(d) == Weekday(d) < 5 /\ d \notin holidays

is_trading_day(d) ==
    IF Weekday(d) >= 5 THEN FALSE
    ELSE IF SupportedFrom <= YearOf(d) /\ YearOf(d) <= SupportedTo
         THEN d \notin holidays
         ELSE TRUE

Delta(direction) == IF direction = "backward" THEN -1 ELSE 1

\* the for loop of adjust_to_trading_day: n attempts left, date_obj = cur
RECURSIVE AdjustLoop(_, _, _, _)
AdjustLoop(orig, cur, delta, n) ==
    IF n = 0 THEN orig
    ELSE IF is_trading_day(cur + delta) THEN cur + delta
         ELSE AdjustLoop(orig, cur + delta, delta, n - 1)

\* the early return for a trading day left out: the loop always moves
adjust_to_trading_day_AlwaysMoves(d, direction) ==
    AdjustLoop(d, d, Delta(direction), max_attempts)

adjust_to_trading_day(d, direction) ==
    IF is_trading_day(d) THEN d
    ELSE AdjustLoop(d, d, Delta(direction), max_attempts)

_prev_trading_day(d) == adjust_to_trading_day(d - 1, "backward")
_next_trading_day(d) == adjust_to_trading_day(d + 1, "forward")

----------------------------------------------------------------------------
(* Candle clock: kline_time_rules.py *)

MORNING_START == 570
MORNING_END == 690
AFTERNOON_START == 780
AFTERNOON_END == 900

IsMinute(k) == k \in {"5min", "15min", "30min", "60min"}
Minutes(k) == CASE k = "60min" -> 60 [] k = "30min" -> 30
                [] k = "15min" -> 15 [] k = "5min" -> 5

\* the start minutes of the candles of a day
get_all_kline_times(k) ==
    IF k = "daily" THEN { MORNING_START }
    ELSE { s \in MORNING_START .. (MORNING_END - 1) :
              (s - MORNING_START) % Minutes(k) = 0 }
         \cup
         { s \in AFTERNOON_START .. (AFTERNOON_END - 1) :
              (s - AFTERNOON_START) % Minutes(k) = 0 }

\* KLINE_COUNTS and get_expected_count: KLINE_COUNTS.get(kline_type, 0)
KLINE_COUNTS ==
    [k \in { "daily", "60min", "30min", "15min", "5min" } |->
        CASE k = "daily" -> 1 [] k = "60min" -> 4 [] k = "30min" -> 8
          [] k = "15min" -> 16 [] k = "5min" -> 48]

get_expected_count(k) == IF k \in DOMAIN KLINE_COUNTS THEN KLINE_COUNTS[k] ELSE 0

\* the loop of a session running up to and including the end of the session
RECURSIVE WhileCurrent_Inclusive(_, _, _)
WhileCurrent_Inclusive(current, session_end, minutes) ==
    IF current <= session_end
    THEN << current >> \o WhileCurrent_Inclusive(current + minutes, session_end, minutes)
    ELSE << >>

\* get_all_kline_times: while current < session_end: kline_times.append(current);
\* current += timedelta(minutes=minutes)
RECURSIVE WhileCurrent(_, _, _)
WhileCurrent(current, session_end, minutes) ==
    IF current < session_end
    THEN << current >> \o WhileCurrent(current + minutes, session_end, minutes)
    ELSE << >>

\* get_all_kline_times(kline_type, date): the list kline_times it returns, as
\* minutes of the day
kline_times(k) ==
    IF k = "daily" THEN << MORNING_START >>
    ELSE WhileCurrent(MORNING_START, MORNING_END, Minutes(k))
         \o WhileCurrent(AFTERNOON_START, AFTERNOON_END, Minutes(k))

\* get_kline_at_time("daily", now)[2]
DailyFinished(c) == c >= AFTERNOON_END

\* the for loop of get_kline_at_time over all_times, from position i, and the
\* code after it; times are the start instants of the day's candles, in order
RECURSIVE KlineLoop(_, _, _, _)
KlineLoop(all_times, i, minutes, current_time) ==
    IF i > Len(all_times)
    THEN IF current_time < all_times[1]
         THEN [start |-> all_times[1], end |-> all_times[1] + minutes,
               is_finished |-> FALSE]
         ELSE [start |-> all_times[Len(all_times)],
               end |-> all_times[Len(all_times)] + minutes,
               is_finished |-> TRUE]
    ELSE LET kline_start == all_times[i]
             kline_end   == kline_start + minutes
         IN  IF kline_start <= current_time /\ current_time < kline_end
             THEN [start |-> kline_start, end |-> kline_end, is_finished |-> FALSE]
             ELSE IF current_time >= kline_end /\ i = Len(all_times)
             THEN [start |-> kline_start, end |-> kline_end, is_finished |-> TRUE]
             ELSE KlineLoop(all_times, i + 1, minutes, current_time)

\* the day candle sealed only after 15:00, not at 15:00
get_kline_at_time_DailyStrict(k, current_time) ==
    LET date == DateOf(current_time)
    IN  IF k = "daily"
        THEN [start |-> Ts(date, MORNING_START), end |-> Ts(date, AFTERNOON_END),
              is_finished |-> current_time > Ts(date, AFTERNOON_END)]
        ELSE KlineLoop(SortedSeq({ Ts(date, s) : s \in get_all_kline_times(k) }),
                       1, Minutes(k), current_time)

\* KLineTimeRules.get_kline_at_time(kline_type, current_time), for the day and
\* the minute resolutions (any other resolution raises ValueError)
get_kline_at_time(k, current_time) ==
    LET date == DateOf(current_time)
    IN  IF k = "daily"
        THEN [start |-> Ts(date, MORNING_START), end |-> Ts(date, AFTERNOON_END),
              is_finished |-> DailyFinished(current_time % 1440)]
        ELSE KlineLoop(SortedSeq({ Ts(date, s) : s \in get_all_kline_times(k) }),
                       1, Minutes(k), current_time)

----------------------------------------------------------------------------
(* The vendors.  The exchange trades on the weekdays that are not holidays; *)
(* the bulk vendor publishes a day's candles after that day, the intraday   *)
(* vendor reports today's candles up to the one that is forming.            *)

VendorTradingDay(d) == Weekday(d) < 5 /\ d \notin holidays

\* the last trading day of its week: the date of a weekly candle
LastOfWeek(d) ==
    /\ VendorTradingDay(d)
    /\ \A x \in (d + 1) .. (d - Weekday(d) + 6) : ~VendorTradingDay(x)

\* bs.query_history_k_data_plus(code, fields, start_date, end_date, frequency):
\* the rows [date, minute] the bulk vendor returns
BulkRows(k, sb, se) ==
    IF IsMinute(k)
    THEN { [date |-> d, minute |-> s + Minutes(k)] :
              d \in { x \in sb .. se : VendorTradingDay(x) /\ x < today },
              s \in get_all_kline_times(k) }
    ELSE IF k = "daily"
    THEN { [date |-> d, minute |-> 0] :
              d \in { x \in sb .. se : VendorTradingDay(x) /\ x < today } }
    ELSE { [date |-> d, minute |-> 0] :
              d \in { x \in sb .. se : LastOfWeek(x) /\ x < today } }

\* the end instants of today's candles, in order
TodayEnds(k) == SortedSeq({ Ts(today, s + Minutes(k)) : s \in get_all_kline_times(k) })

\* ak.stock_zh_a_hist_min_em(symbol, period): the possible frames, as sets of
\* end instants: yesterday's candles and a prefix of today's, no further than the
\* candle that is forming
IntradayMinuteFrames(k) ==
    LET ends     == TodayEnds(k)
        sealed   == Cardinality({ i \in 1 .. Len(ends) : Now >= ends[i] })
        upto     == IF sealed + 1 <= Len(ends) THEN sealed + 1 ELSE Len(ends)
        earlier  == IF VendorTradingDay(today - 1)
                    THEN { Ts(today - 1, s + Minutes(k)) : s \in get_all_kline_times(k) }
                    ELSE {}
    IN  IF VendorTradingDay(today)
        THEN { earlier \cup { ends[i] : i \in 1 .. n } : n \in 0 .. upto }
        ELSE { earlier }

\* ak.stock_zh_a_hist(symbol, "daily", today, today): whether the frame has a row
IntradayDailyFrames ==
    IF VendorTradingDay(today) /\ clock >= MORNING_START
    THEN { TRUE, FALSE } ELSE { FALSE }

----------------------------------------------------------------------------
(* Store queries: TimescaleAPI.py _query_from_database *)

\* sql_history: the rows of [begin_date, end_date]
HistoricalRows == { t \in hist : DateOf(t) >= begin_date /\ DateOf(t) <= end_date }

\* the realtime table read whatever the window
RealtimeRows_Always == { t \in rt : DateOf(t) = today }

\* sql_realtime: today's rows, read only when end_date >= today
RealtimeRows ==
    IF end_date >= today THEN { t \in rt : DateOf(t) = today } ELSE {}

Tagged(S, src) ==
    LET sorted == SortedSeq(S)
    IN  [ i \in 1 .. Len(sorted) |-> [ts |-> sorted[i], src |-> src] ]

\* all_rows = list(historical_rows) + list(realtime_rows)
Merge(h, r) == Tagged(h, "h") \o Tagged(r, "r")

_query_from_database == Merge(HistoricalRows, RealtimeRows)

\* the day/week/month branch unpacks row[:8] of a 9-column realtime row: the
\* datetime lands in open_val and float(open_val) raises; so does any SELECT
\* on a connection whose transaction is aborted
QueryRaises == conn = "aborted" \/ (~IsMinute(k_type) /\ RealtimeRows # {})

\* TimescaleAPI.py _find_missing_ranges
_find_missing_ranges(data) ==
    IF data = << >> THEN << << begin_date, end_date >> >>
    ELSE LET first_date == DateOf(data[1].ts)
             last_date  == DateOf(data[Len(data)].ts)
             leading    == IF first_date > begin_date
                           THEN << << begin_date, _prev_trading_day(first_date) >> >>
                           ELSE << >>
             trailing   == IF last_date < end_date
                           THEN << << _next_trading_day(last_date), end_date >> >>
                           ELSE << >>
         IN  leading \o trailing

\* _prepare_insert_records: a vendor row becomes the key of a table row
_prepare_insert_records(rows) == { Ts(r.date, r.minute) : r \in rows }

\* the sweep taking today's rows as well
_cleanup_old_realtime_data_TodayToo(r) == { t \in r : DateOf(t) > today }

\* DELETE FROM stock_kline_realtime WHERE datetime::date < CURRENT_DATE
_cleanup_old_realtime_data(r) == { t \in r : DateOf(t) >= today }

----------------------------------------------------------------------------
(* Intraday router: realtime_updater.py *)

\* sh.600519, a stock; sh.000001 and sz.399001, indexes
Stock == [market |-> "sh", digits |-> << 6, 0, 0, 5, 1, 9 >>]
Codes == { Stock,
           [market |-> "sh", digits |-> << 0, 0, 0, 0, 0, 1 >>],
           [market |-> "sz", digits |-> << 3, 9, 9, 0, 0, 1 >>] }

\* only the sh.000 prefix recognised
is_index_code_ShOnly(c) ==
    c.market = "sh" /\ SubSeq(c.digits, 1, 3) = << 0, 0, 0 >>

\* code.startswith("sh.000") or code.startswith("sz.399")
is_index_code(c) ==
    \/ c.market = "sh" /\ SubSeq(c.digits, 1, 3) = << 0, 0, 0 >>
    \/ c.market = "sz" /\ SubSeq(c.digits, 1, 3) = << 3, 9, 9 >>

\* the operations that can raise: the DELETE of the sweep, the intraday vendor
\* call, an upsert of the router, the upsert of the reader's backfill
Faults == { "sweep", "vendor", "router_save", "reader_save" }

\* the outcomes of an operation of kind op: it can raise only in a behaviour
\* whose fault is op
Fails(op) == IF fault = op THEN { TRUE, FALSE } ELSE { FALSE }

\* no row was handed to a store
NoRouted == [now |-> 0, df |-> {}, rows |-> {}]

\* the count compared strictly: as many rows as finished candles is not enough
_check_today_data_exists_Strict(k, r) ==
    LET history_count  == Cardinality({ t \in hist : DateOf(t) = today })
        realtime_count == Cardinality({ t \in r : DateOf(t) = today })
        total_count    == history_count + realtime_count
    IN  IF k = "daily" THEN DailyFinished(clock) /\ history_count > 0
        ELSE IF ~IsMinute(k) THEN FALSE
        ELSE LET finished_klines ==
                     Cardinality({ s \in get_all_kline_times(k) :
                                     Now >= Ts(today, s + Minutes(k)) })
             IN  total_count > finished_klines /\ finished_klines > 0

\* _check_today_data_exists: TRUE skips the vendor call
_check_today_data_exists(k, r) ==
    LET history_count  == Cardinality({ t \in hist : DateOf(t) = today })
        realtime_count == Cardinality({ t \in r : DateOf(t) = today })
        total_count    == history_count + realtime_count
    IN  IF k = "daily" THEN DailyFinished(clock) /\ history_count > 0
        ELSE IF ~IsMinute(k) THEN FALSE   \* get_kline_at_time raises, caught
        ELSE LET finished_klines ==
                     Cardinality({ s \in get_all_kline_times(k) :
                                     Now >= Ts(today, s + Minutes(k)) })
             IN  total_count >= finished_klines /\ finished_klines > 0

\* df_today = df[df["时间"].dt.date == today]
DfToday(df) == { t \in df : DateOf(t) = today }

\* the comparison made strict: a candle ending now is not finished
IsFinished_Strict(t) == Now > t

\* is_finished = now >= kline_end_time
IsFinished(t) == Now >= t

\* the rows _update_minute_smart sends to the historical table
HistoryRecords(df) == { t \in DfToday(df) : IsFinished(t) }

\* the test of is_finished left out: every row of today goes to the realtime table
RealtimeRecords_All(df) == DfToday(df)

\* the rows _update_minute_smart sends to the realtime table
RealtimeRecords(df) == { t \in DfToday(df) : ~IsFinished(t) }

\* a row handed to a store: its key in the table, the end of its candle, the
\* store ("h" historical, "r" realtime) and the is_finished column written
Routed(key, e, store, is_finished) ==
    [key |-> key, e |-> e, store |-> store, is_finished |-> is_finished]

----------------------------------------------------------------------------
(* The reader: TimescaleAPI.py CTimescaleStockAPI *)

NoRead == [b |-> 0, e |-> 0]

IdleRead ==
    /\ conn = "ok"
    /\ pc = "idle"
    /\ req = NoRead
    /\ begin_date = 0
    /\ end_date = 0
    /\ db_data = << >>
    /\ missing_ranges = << >>
    /\ gap_i = 1
    /\ bulk_log = << >>
    /\ ak_calls = 0
    /\ failed = FALSE
    /\ output = << >>

\* the sweep harness and the upsert harness at rest
SweepOff == all_rt = {} /\ deleted_count = 0

WriteOff == kline_table = << >> /\ writes = << >>

\* the threads that make reads in one process
Threads == { 1, 2 }

\* the session harness at rest: is_connect = None, no call made
SessionOff ==
    /\ is_connect = "None"
    /\ bs_server = "none"
    /\ t_pc = [t \in Threads |-> "idle"]
    /\ t_log = [t \in Threads |-> << >>]
    /\ t_n = [t \in Threads |-> 0]

NoInput == [gaps |-> 0, today_in |-> FALSE, rows |-> 0]

\* the connection harness at rest: CTimescaleStockAPI.__init__ sets
\* self.db_conn = None, and no generator is running
ConnOff ==
    /\ db_conn = "None"
    /\ txn = "none"
    /\ g_pc = "off"
    /\ g_in = NoInput
    /\ g_i = 0
    /\ vendor_log = << >>
    /\ g_exit = "running"

HarnessOff == SessionOff /\ ConnOff

SnapOff ==
    /\ snap_pc = "off"
    /\ snap_d = 0
    /\ snap_dir = "backward"
    /\ snap_r1 = 0
    /\ snap_r2 = 0

RuleOff ==
    /\ rule_pc = "off"
    /\ rule_res = [start |-> 0, end |-> 0, is_finished |-> FALSE]

NoArgs == [cli |-> FALSE, asked |-> 0, start_index |-> 0, max_stocks |-> 0,
           relogin_interval |-> 0]

\* BatchStockDataImporter.__init__
NewImporter ==
    /\ b_args = NoArgs
    /\ stocks = [lo |-> 0, len |-> 0]
    /\ idx = 1
    /\ bs_session = FALSE
    /\ bs_log = << >>
    /\ walked = << >>
    /\ success_count = 0
    /\ failed_count = 0
    /\ failed_stocks = << >>

BatchOff ==
    /\ b_pc = "off"
    /\ total_stocks = 0
    /\ NewImporter

\* day 0 is Monday 2024-01-01, a holiday; the week-end is days 5 and 6
Init ==
    /\ epoch = [year |-> 2024, doy |-> 0]
    /\ holidays = {0}
    /\ today = 0
    /\ clock = Clocks[1]
    /\ k_type \in {"60min", "daily", "weekly"}
    /\ list_date = NoDate
    /\ hist = {}
    /\ rt = {}
    /\ code \in { Stock, [market |-> "sz", digits |-> << 3, 9, 9, 0, 0, 1 >>] }
    /\ fault = "none"
    /\ SweepOff
    /\ WriteOff
    /\ HarnessOff
    /\ IdleRead
    /\ reads = 0
    /\ served = {}
    /\ routed = NoRouted
    /\ SnapOff
    /\ RuleOff
    /\ BatchOff

\* the clamp left out: begin_date is used as given
ClampToListDate_NoClamp(b) == b

\* begin_date after the list-date clamp of __init__
ClampToListDate(b) ==
    IF list_date # NoDate /\ b < list_date THEN list_date ELSE b

\* CTimescaleStockAPI.__init__(code, k_type, begin_date, end_date)
NewRead(b, e) ==
    /\ pc = "idle"
    /\ reads < MaxReads
    /\ reads' = reads + 1
    /\ req' = [b |-> b, e |-> e]
    /\ begin_date' = adjust_to_trading_day(ClampToListDate(b), "forward")
    /\ end_date' = adjust_to_trading_day(e, "backward")
    /\ pc' = "query"
    /\ UNCHANGED << calendarVars, conn, clockVars, code, fault, k_type, list_date,
                    storeVars, db_data, missing_ranges, gap_i, bulk_log,
                    ak_calls, failed, output, served, snapVars, ruleVars,
                    batchVars, routed, sweepVars, writeVars,
                    harnessVars >>

\* get_kl_data: db_data = list(self._query_from_database())
Query ==
    /\ pc = "query"
    /\ IF QueryRaises
       THEN /\ failed' = TRUE
            /\ pc' = "done"
            /\ UNCHANGED db_data
       ELSE /\ db_data' = _query_from_database
            /\ pc' = "detect"
            /\ UNCHANGED failed
    /\ UNCHANGED << calendarVars, conn, clockVars, code, fault, k_type, list_date,
                    storeVars, req, begin_date, end_date, missing_ranges,
                    gap_i, bulk_log, ak_calls, output, reads, served, snapVars,
                    ruleVars, batchVars, routed, sweepVars, writeVars,
                    harnessVars >>

\* get_kl_data: missing_ranges = self._find_missing_ranges(db_data)
DetectGaps ==
    /\ pc = "detect"
    /\ missing_ranges' = _find_missing_ranges(db_data)
    /\ pc' = "today"
    /\ UNCHANGED << calendarVars, conn, clockVars, code, fault, k_type, list_date,
                    storeVars, req, begin_date, end_date, db_data, gap_i,
                    bulk_log, ak_calls, failed, output, reads, served,
                    snapVars, ruleVars, batchVars, routed, sweepVars,
                    writeVars,
                    harnessVars >>

\* RealtimeDataUpdater._update_minute_smart after the freshness check, entered
\* with the connection in state c: _batch_save_to_history_table, then
\* _batch_save_to_realtime_table, each one executemany and a commit, neither
\* with a rollback; an exception of the first leaves the second unreached
_update_minute_smart(swept, c) ==
    \E h_fails \in Fails("router_save"), r_fails \in Fails("router_save") :
      \E df \in IntradayMinuteFrames(k_type) :
        IF (c = "aborted" \/ h_fails) /\ HistoryRecords(df) # {}
        THEN \* the first batch raises
             /\ hist' = hist
             /\ rt' = swept
             /\ conn' = "aborted"
             /\ routed' = [now |-> Now, df |-> DfToday(df), rows |-> {}]
        ELSE IF (c = "aborted" \/ r_fails) /\ RealtimeRecords(df) # {}
        THEN \* the first batch is committed, the second raises
             /\ hist' = hist \cup HistoryRecords(df)
             /\ rt' = swept
             /\ conn' = "aborted"
             /\ routed' =
                   [now  |-> Now,
                    df   |-> DfToday(df),
                    rows |-> { Routed(t, t, "h", TRUE) : t \in HistoryRecords(df) }]
        ELSE /\ hist' = hist \cup HistoryRecords(df)
             /\ rt' = swept \cup RealtimeRecords(df)
             /\ conn' = c
             /\ routed' =
                   [now  |-> Now,
                    df   |-> DfToday(df),
                    rows |-> { Routed(t, t, "h", TRUE) : t \in HistoryRecords(df) }
                             \cup
                             { Routed(t, t, "r", IsFinished(t)) :
                                  t \in RealtimeRecords(df) }]

\* RealtimeDataUpdater._update_daily_smart after the freshness check, entered
\* with the connection in state c; the weekly and monthly resolutions take this
\* path with their own table, and an index takes _update_index_daily_smart,
\* the same steps on the vendor's index endpoint.  The one upsert is an
\* execute and a commit with no rollback.
_update_daily_smart(swept, c) ==
    \E has_row \in IntradayDailyFrames, fails \in Fails("router_save") :
        IF ~has_row
        THEN /\ hist' = hist
             /\ rt' = swept
             /\ conn' = c
             /\ routed' = NoRouted
        ELSE IF c = "aborted" \/ fails
        THEN /\ hist' = hist
             /\ rt' = swept
             /\ conn' = "aborted"
             /\ routed' = NoRouted
        ELSE IF DailyFinished(clock)
        THEN /\ hist' = hist \cup { Ts(today, 0) }
             /\ rt' = swept
             /\ conn' = c
             /\ routed' = [now |-> Now, df |-> { Ts(today, AFTERNOON_END) },
                           rows |-> { Routed(Ts(today, 0), Ts(today, AFTERNOON_END),
                                             "h", TRUE) }]
        ELSE /\ hist' = hist
             /\ rt' = swept \cup { Ts(today, MORNING_START) }
             /\ conn' = c
             /\ routed' = [now |-> Now, df |-> { Ts(today, AFTERNOON_END) },
                           rows |-> { Routed(Ts(today, MORNING_START),
                                             Ts(today, AFTERNOON_END), "r",
                                             DailyFinished(clock)) }]

\* RealtimeDataUpdater.update_realtime_kline_smart, entered with the connection
\* in state c: an index at a minute resolution returns after a warning; the
\* freshness check answers False when its SELECT raises; an exception of the
\* vendor or of an upsert is logged and raised to the reader
update_realtime_kline_smart(swept, c) ==
    IF \/ is_index_code(code) /\ IsMinute(k_type)
       \/ c = "ok" /\ _check_today_data_exists(k_type, swept)
    THEN /\ hist' = hist
         /\ rt' = swept
         /\ conn' = c
         /\ routed' = NoRouted
         /\ UNCHANGED ak_calls
    ELSE /\ ak_calls' = ak_calls + 1
         /\ \E v_fails \in Fails("vendor") :
               IF v_fails
               THEN /\ hist' = hist
                    /\ rt' = swept
                    /\ conn' = c
                    /\ routed' = NoRouted
               ELSE IF IsMinute(k_type)
               THEN _update_minute_smart(swept, c)
               ELSE _update_daily_smart(swept, c)

\* get_kl_data: self._fetch_today_data_if_needed(): the sweep, whose exception
\* is logged and leaves the transaction aborted, then the router, whose
\* exception is logged
FetchToday ==
    /\ pc = "today"
    /\ IF end_date < today
       THEN UNCHANGED << storeVars, conn, ak_calls, routed >>
       ELSE \E s_fails \in Fails("sweep") :
               IF s_fails
               THEN update_realtime_kline_smart(rt, "aborted")
               ELSE update_realtime_kline_smart(_cleanup_old_realtime_data(rt),
                                                conn)
    /\ pc' = IF missing_ranges # << >> THEN "backfill" ELSE "emit"
    /\ UNCHANGED << calendarVars, clockVars, code, fault, k_type, list_date,
                    req, begin_date, end_date, db_data, missing_ranges, gap_i,
                    bulk_log, failed, output, reads, served, snapVars,
                    ruleVars, batchVars, sweepVars, writeVars,
                    harnessVars >>

\* _fetch_and_save_from_baostock(start_date, end_date): the rows handed to
\* _save_to_database
_fetch_and_save_from_baostock(sb, se) ==
    _prepare_insert_records(BulkRows(k_type, sb, se))

\* the loop asks the vendor for the whole window at every turn
Backfill_WholeWindow ==
    /\ pc = "backfill"
    /\ gap_i <= Len(missing_ranges)
    /\ LET gap  == << begin_date, end_date >>
           rows == _fetch_and_save_from_baostock(gap[1], gap[2])
       IN  /\ bulk_log' = Append(bulk_log, gap)
           /\ \E fails \in Fails("reader_save") :
                 IF rows # {} /\ (conn = "aborted" \/ fails)
                 THEN \* _save_to_database: rollback, raise
                      /\ hist' = hist
                      /\ conn' = "ok"
                      /\ failed' = TRUE
                      /\ pc' = "done"
                      /\ UNCHANGED gap_i
                 ELSE /\ hist' = hist \cup rows
                      /\ conn' = IF rows = {} THEN conn ELSE "ok"
                      /\ gap_i' = gap_i + 1
                      /\ pc' = IF gap_i = Len(missing_ranges)
                               THEN "requery" ELSE "backfill"
                      /\ UNCHANGED failed
    /\ UNCHANGED << calendarVars, clockVars, code, fault, k_type, list_date,
                    rt, req, begin_date, end_date, db_data, missing_ranges,
                    ak_calls, output, reads, served, snapVars, ruleVars,
                    batchVars, routed, sweepVars, writeVars,
                    harnessVars >>

\* get_kl_data: one turn of the loop over missing_ranges
Backfill ==
    /\ pc = "backfill"
    /\ gap_i <= Len(missing_ranges)
    /\ LET gap  == missing_ranges[gap_i]
           rows == _fetch_and_save_from_baostock(gap[1], gap[2])
       IN  /\ bulk_log' = Append(bulk_log, gap)
           /\ \E fails \in Fails("reader_save") :
                 IF rows # {} /\ (conn = "aborted" \/ fails)
                 THEN \* _save_to_database: rollback, raise
                      /\ hist' = hist
                      /\ conn' = "ok"
                      /\ failed' = TRUE
                      /\ pc' = "done"
                      /\ UNCHANGED gap_i
                 ELSE /\ hist' = hist \cup rows
                      /\ conn' = IF rows = {} THEN conn ELSE "ok"
                      /\ gap_i' = gap_i + 1
                      /\ pc' = IF gap_i = Len(missing_ranges)
                               THEN "requery" ELSE "backfill"
                      /\ UNCHANGED failed
    /\ UNCHANGED << calendarVars, clockVars, code, fault, k_type, list_date,
                    rt, req, begin_date, end_date, db_data, missing_ranges,
                    ak_calls, output, reads, served, snapVars, ruleVars,
                    batchVars, routed, sweepVars, writeVars,
                    harnessVars >>

\* get_kl_data: the second db_data = list(self._query_from_database())
Requery ==
    /\ pc = "requery"
    /\ IF QueryRaises
       THEN /\ failed' = TRUE
            /\ pc' = "done"
            /\ UNCHANGED db_data
       ELSE /\ db_data' = _query_from_database
            /\ pc' = "emit"
            /\ UNCHANGED failed
    /\ UNCHANGED << calendarVars, conn, clockVars, code, fault, k_type, list_date,
                    storeVars, req, begin_date, end_date, missing_ranges,
                    gap_i, bulk_log, ak_calls, output, reads, served, snapVars,
                    ruleVars, batchVars, routed, sweepVars, writeVars,
                    harnessVars >>

OutTs(rows) == { rows[i].ts : i \in 1 .. Len(rows) }

\* get_kl_data: for kline_unit in db_data: yield kline_unit
Emit ==
    /\ pc = "emit"
    /\ output' = db_data
    /\ served' = served \cup { t \in OutTs(db_data) : DateOf(t) = today }
    /\ pc' = "done"
    /\ UNCHANGED << calendarVars, conn, clockVars, code, fault, k_type, list_date,
                    storeVars, req, begin_date, end_date, db_data,
                    missing_ranges, gap_i, bulk_log, ak_calls, failed, reads,
                    snapVars, ruleVars, batchVars, routed, sweepVars,
                    writeVars,
                    harnessVars >>

\* get_kl_data: finally self._close_db(); the reader object is dropped
Close ==
    /\ pc = "done"
    /\ pc' = "idle"
    /\ conn' = "ok"
    /\ req' = NoRead
    /\ begin_date' = 0
    /\ end_date' = 0
    /\ db_data' = << >>
    /\ missing_ranges' = << >>
    /\ gap_i' = 1
    /\ bulk_log' = << >>
    /\ ak_calls' = 0
    /\ failed' = FALSE
    /\ output' = << >>
    /\ routed' = NoRouted
    /\ UNCHANGED << calendarVars, clockVars, code, fault, k_type, list_date,
                    storeVars, reads, served, snapVars, ruleVars, batchVars,
                    sweepVars, writeVars,
                    harnessVars >>

\* time passes between reads, within the day
TickClock ==
    /\ pc = "idle"
    /\ \E i \in 1 .. (Len(Clocks) - 1) :
          /\ clock = Clocks[i]
          /\ clock' = Clocks[i + 1]
    /\ UNCHANGED << calendarVars, today, code, fault, k_type, list_date,
                    storeVars, readVars, reads, served, snapVars, ruleVars,
                    batchVars, routed, sweepVars, writeVars,
                    harnessVars >>

\* the next day begins
TickDay ==
    /\ pc = "idle"
    /\ today < MaxDay
    /\ today' = today + 1
    /\ clock' = Clocks[1]
    /\ UNCHANGED << calendarVars, code, fault, k_type, list_date, storeVars,
                    readVars, reads, served, snapVars, ruleVars, batchVars,
                    routed, sweepVars, writeVars,
                    harnessVars >>

\* import_stock_info.py: INSERT INTO stocks ... ON CONFLICT (code) DO UPDATE SET
\* list_date = EXCLUDED.list_date, for a symbol the exchange already lists
RegistryUpdate ==
    /\ pc = "idle"
    /\ list_date = NoDate
    /\ \E l \in ListDates : l <= today /\ list_date' = l
    /\ UNCHANGED << calendarVars, clockVars, code, fault, k_type, storeVars,
                    readVars, reads, served, snapVars, ruleVars, batchVars,
                    routed, sweepVars, writeVars,
                    harnessVars >>

Next ==
    \/ \E b \in Days, e \in Days : NewRead(b, e)
    \/ Query
    \/ DetectGaps
    \/ FetchToday
    \/ Backfill
    \/ Requery
    \/ Emit
    \/ Close
    \/ TickClock
    \/ TickDay
    \/ RegistryUpdate

Spec == Init /\ [][Next]_vars

----------------------------------------------------------------------------
(* The calendar harness: adjust_to_trading_day applied once and twice to a  *)
(* date, under calendars that cross the ends of the supported years and     *)
(* holiday tables that hold runs of 1, 5 and 34 days.                       *)

\* day 0 is Monday 2024-01-01, Monday 2026-12-07 or Monday 2003-12-08
Epochs == { [year |-> 2024, doy |-> 0],
            [year |-> 2026, doy |-> 340],
            [year |-> 2003, doy |-> 341] }

HolidayTables ==
    { {} } \cup { a .. (a + n - 1) : a \in {1, 8}, n \in {1, 5, 34} }

SnapInit ==
    /\ epoch \in Epochs
    /\ holidays \in HolidayTables
    /\ today = 0
    /\ clock = Clocks[1]
    /\ k_type = "daily"
    /\ list_date = NoDate
    /\ hist = {}
    /\ rt = {}
    /\ code = Stock
    /\ fault = "none"
    /\ SweepOff
    /\ WriteOff
    /\ HarnessOff
    /\ IdleRead
    /\ reads = 0
    /\ served = {}
    /\ snap_pc = "start"
    /\ snap_d \in 0 .. MaxSnapDay
    /\ snap_dir \in {"backward", "forward"}
    /\ snap_r1 = 0
    /\ snap_r2 = 0
    /\ routed = NoRouted
    /\ RuleOff
    /\ BatchOff

SnapOnce ==
    /\ snap_pc = "start"
    /\ snap_r1' = adjust_to_trading_day(snap_d, snap_dir)
    /\ snap_pc' = "once"
    /\ UNCHANGED << calendarVars, clockVars, code, fault, k_type, list_date,
                    storeVars, readVars, reads, served, snap_d, snap_dir,
                    snap_r2, ruleVars, batchVars, routed, sweepVars,
                    writeVars,
                    harnessVars >>

SnapTwice ==
    /\ snap_pc = "once"
    /\ snap_r2' = adjust_to_trading_day(snap_r1, snap_dir)
    /\ snap_pc' = "done"
    /\ UNCHANGED << calendarVars, clockVars, code, fault, k_type, list_date,
                    storeVars, readVars, reads, served, snap_d, snap_dir,
                    snap_r1, ruleVars, batchVars, routed, sweepVars,
                    writeVars,
                    harnessVars >>

SnapNext == SnapOnce \/ SnapTwice

SnapSpec == SnapInit /\ [][SnapNext]_vars

----------------------------------------------------------------------------
(* The backfill driver: Backend/data/batch_import_all_stocks.py.  The       *)
(* universe is the list get_all_stocks returns, ordered by code; a symbol   *)
(* is its position in that list.                                            *)

MaxWalk == 5

\* the sizes of the universe: get_all_stocks returns [] on a database failure
BatchTotals == { 0, 3, 5, 480 }
StartIndexes == { -1, 0, 2, 477, 480 }
\* --max-stocks: 0 stands for None (not given)
MaxStocksArgs == { 0, 2 }
\* --relogin-interval: 300 is the default of the CLI
ReloginIntervals == { 2, 300 }

\* main(): start_index=477 in the call of batch_import
MainStartIndex == 477

\* the result of one turn of the loop: import_single_stock reports success,
\* import_single_stock reports failure (query error, save error, its own caught
\* exception), or the turn raises before the result is counted
Outcomes == { "ok", "failed", "raises" }

\* stocks = all_stocks[start_index:], then stocks[:max_stocks] if max_stocks
SliceOf(total, start_index, max_stocks) ==
    LET rest == total - start_index
    IN  [lo  |-> start_index,
         len |-> IF max_stocks # 0 /\ max_stocks < rest THEN max_stocks ELSE rest]

\* the rotation taken one symbol early
NeedsRelogin_OneEarly(i, relogin_interval) == i % relogin_interval = 0

\* if (idx - 1) % relogin_interval == 0 and idx > 1
NeedsRelogin(i, relogin_interval) == (i - 1) % relogin_interval = 0 /\ i > 1

\* the exception handler ending the walk instead of continuing
ContinuesAfter_AbortOnException(outcome) == outcome # "raises"

\* the loop goes on after a turn whatever its result: the else branch falls
\* through and the except branch ends with continue
ContinuesAfter(outcome) == TRUE

BsOp(op, at, ok) == [op |-> op, at |-> at, ok |-> ok]

\* batch_import up to the loop: the universe, the checks of start_index, the
\* slice, the first login
BatchImportBegin(cli, asked, start_index, max_stocks, relogin_interval) ==
    /\ b_pc = "entry"
    /\ b_args' = [cli |-> cli, asked |-> asked, start_index |-> start_index,
                  max_stocks |-> max_stocks, relogin_interval |-> relogin_interval]
    /\ IF total_stocks = 0 \/ start_index < 0 \/ start_index >= total_stocks
       THEN /\ b_pc' = "done"
            /\ UNCHANGED << stocks, bs_session, bs_log >>
       ELSE /\ SliceOf(total_stocks, start_index, max_stocks).len <= MaxWalk
            /\ stocks' = SliceOf(total_stocks, start_index, max_stocks)
            /\ \E ok \in BOOLEAN :
                  /\ bs_log' = << BsOp("login", 0, ok) >>
                  /\ bs_session' = ok
                  /\ b_pc' = IF ok THEN "walk" ELSE "done"
    /\ UNCHANGED << calendarVars, clockVars, code, fault, k_type, list_date,
                    storeVars, readVars, reads, served, routed, snapVars,
                    ruleVars, total_stocks, idx, walked, success_count,
                    failed_count, failed_stocks, sweepVars, writeVars,
                    harnessVars >>

\* BatchStockDataImporter.batch_import called with a start_index
batch_import(start_index, max_stocks, relogin_interval) ==
    BatchImportBegin(FALSE, start_index, start_index, max_stocks, relogin_interval)

\* main(): the command line, --start-index asked
main(asked, max_stocks, relogin_interval) ==
    BatchImportBegin(TRUE, asked, MainStartIndex, max_stocks, relogin_interval)

\* one turn of the loop over stocks: the rotation, import_single_stock, the counts
ProcessStock ==
    /\ b_pc = "walk"
    /\ idx <= stocks.len
    /\ \E relogin_ok \in BOOLEAN, outcome \in Outcomes :
          LET rotate   == NeedsRelogin(idx, b_args.relogin_interval)
              rotation == IF rotate
                          THEN << BsOp("logout", idx - 1, TRUE),
                                  BsOp("login", idx - 1, relogin_ok) >>
                          ELSE << >>
              session  == IF rotate THEN relogin_ok ELSE bs_session
              query    == IF outcome = "raises" THEN << >>
                          ELSE << BsOp("query", idx - 1, session) >>
          IN  IF rotate /\ ~relogin_ok
              THEN \* re-login rejected: break
                   /\ bs_log' = bs_log \o rotation
                   /\ bs_session' = FALSE
                   /\ b_pc' = "finish"
                   /\ UNCHANGED << idx, walked, success_count, failed_count,
                                   failed_stocks >>
              ELSE /\ (~rotate => relogin_ok)
                   /\ bs_log' = bs_log \o rotation \o query
                   /\ bs_session' = session
                   /\ walked' = Append(walked, stocks.lo + idx - 1)
                   /\ success_count' =
                          IF outcome = "ok" THEN success_count + 1 ELSE success_count
                   /\ failed_count' =
                          IF outcome = "ok" THEN failed_count ELSE failed_count + 1
                   /\ failed_stocks' =
                          IF outcome = "failed"
                          THEN Append(failed_stocks, stocks.lo + idx - 1)
                          ELSE failed_stocks
                   /\ idx' = idx + 1
                   /\ b_pc' = IF ContinuesAfter(outcome) /\ idx < stocks.len
                              THEN "walk" ELSE "finish"
    /\ UNCHANGED << calendarVars, clockVars, code, fault, k_type, list_date,
                    storeVars, readVars, reads, served, routed, snapVars,
                    ruleVars, b_args, total_stocks, stocks, sweepVars,
                    writeVars,
                    harnessVars >>

\* batch_import after the loop: logout_baostock and the final report
BatchFinish ==
    /\ b_pc = "finish"
    /\ bs_log' = Append(bs_log, BsOp("logout", Len(walked), TRUE))
    /\ bs_session' = FALSE
    /\ b_pc' = "done"
    /\ UNCHANGED << calendarVars, clockVars, code, fault, k_type, list_date,
                    storeVars, readVars, reads, served, routed, snapVars,
                    ruleVars, b_args, total_stocks, stocks, idx, walked,
                    success_count, failed_count, failed_stocks, sweepVars,
                    writeVars,
                    harnessVars >>

BatchInit ==
    /\ epoch = [year |-> 2024, doy |-> 0]
    /\ holidays = {0}
    /\ today = 0
    /\ clock = Clocks[1]
    /\ k_type = "daily"
    /\ list_date = NoDate
    /\ hist = {}
    /\ rt = {}
    /\ code = Stock
    /\ fault = "none"
    /\ SweepOff
    /\ WriteOff
    /\ HarnessOff
    /\ IdleRead
    /\ reads = 0
    /\ served = {}
    /\ routed = NoRouted
    /\ SnapOff
    /\ RuleOff
    /\ b_pc = "entry"
    /\ total_stocks \in BatchTotals
    /\ NewImporter

BatchNext ==
    \/ \E i \in StartIndexes, m \in MaxStocksArgs, n \in ReloginIntervals :
          batch_import(i, m, n)
    \/ \E i \in StartIndexes, m \in MaxStocksArgs, n \in ReloginIntervals :
          main(i, m, n)
    \/ ProcessStock
    \/ BatchFinish

BatchSpec == BatchInit /\ [][BatchNext]_vars

----------------------------------------------------------------------------
(* The candle-clock harness: get_kline_at_time applied to every minute of a *)
(* trading day, for the day resolution and the four minute resolutions.     *)

RuleKTypes == { "5min", "15min", "30min", "60min", "daily" }

\* day 1 is Tuesday 2024-01-02
RuleInit ==
    /\ epoch = [year |-> 2024, doy |-> 0]
    /\ holidays = {0}
    /\ today = 1
    /\ clock \in 0 .. 1439
    /\ k_type \in RuleKTypes
    /\ list_date = NoDate
    /\ hist = {}
    /\ rt = {}
    /\ code = Stock
    /\ fault = "none"
    /\ SweepOff
    /\ WriteOff
    /\ HarnessOff
    /\ IdleRead
    /\ reads = 0
    /\ served = {}
    /\ routed = NoRouted
    /\ SnapOff
    /\ rule_pc = "start"
    /\ rule_res = [start |-> 0, end |-> 0, is_finished |-> FALSE]
    /\ BatchOff

RuleApply ==
    /\ rule_pc = "start"
    /\ rule_res' = get_kline_at_time(k_type, Now)
    /\ rule_pc' = "done"
    /\ UNCHANGED << calendarVars, clockVars, code, fault, k_type, list_date,
                    storeVars, readVars, reads, served, routed, snapVars,
                    batchVars, sweepVars, writeVars,
                    harnessVars >>

RuleNext == RuleApply

RuleSpec == RuleInit /\ [][RuleNext]_vars

----------------------------------------------------------------------------
(* The router harness: the sweep and the intraday refresh of                *)
(* _fetch_today_data_if_needed, called again and again over two days for    *)
(* each resolution the router accepts.                                      *)

MaxRefreshes == 2

\* the days of the harness: Tuesday 2024-01-02 and Wednesday 2024-01-03
RouterDays == { 1, 2 }

RouterKTypes == { "5min", "15min", "30min", "60min", "daily", "weekly", "monthly" }

\* 10:00, 11:30, 12:00, 15:00
RouterClocks == << 600, 690, 720, 900 >>

RouterInit ==
    /\ epoch = [year |-> 2024, doy |-> 0]
    /\ holidays = {0}
    /\ today = 1
    /\ clock = RouterClocks[1]
    /\ k_type \in RouterKTypes
    /\ list_date = NoDate
    /\ hist = {}
    /\ rt = {}
    /\ code \in Codes
    /\ fault = "none"
    /\ SweepOff
    /\ WriteOff
    /\ HarnessOff
    /\ IdleRead
    /\ reads = 0
    /\ served = {}
    /\ routed = NoRouted
    /\ SnapOff
    /\ RuleOff
    /\ BatchOff

\* _fetch_today_data_if_needed for a window that includes today
RouterRefresh ==
    /\ ak_calls < MaxRefreshes
    /\ update_realtime_kline_smart(_cleanup_old_realtime_data(rt), conn)
    /\ UNCHANGED << calendarVars, clockVars, code, fault, k_type, list_date,
                    pc, req, begin_date, end_date, db_data, missing_ranges,
                    gap_i, bulk_log, failed, output, reads, served, snapVars,
                    ruleVars, batchVars, sweepVars, writeVars,
                    harnessVars >>

RouterTick ==
    /\ \E i \in 1 .. (Len(RouterClocks) - 1) :
          /\ clock = RouterClocks[i]
          /\ clock' = RouterClocks[i + 1]
    /\ UNCHANGED << calendarVars, today, code, fault, k_type, list_date,
                    storeVars, readVars, reads, served, routed, snapVars,
                    ruleVars, batchVars, sweepVars, writeVars,
                    harnessVars >>

RouterDay ==
    /\ today + 1 \in RouterDays
    /\ today' = today + 1
    /\ clock' = RouterClocks[1]
    /\ UNCHANGED << calendarVars, code, fault, k_type, list_date, storeVars,
                    readVars, reads, served, routed, snapVars, ruleVars,
                    batchVars, sweepVars, writeVars,
                    harnessVars >>

RouterNext == RouterRefresh \/ RouterTick \/ RouterDay

RouterSpec == RouterInit /\ [][RouterNext]_vars

----------------------------------------------------------------------------
(* The sweep harness: _cleanup_old_realtime_data on a realtime table that   *)
(* holds rows of several symbols and resolutions, on the day of the rows    *)
(* and on later days.                                                       *)

\* Wednesday 2024-01-03 to Friday 2024-01-05
SweepDays == { 2, 3, 4 }

\* rows the router can have written: candles of 2024-01-02 and 2024-01-03
\* ending 10:30 and 11:30, of a stock and of an index
SweepRows ==
    { [code |-> c, kline_type |-> k, datetime |-> t] :
         c \in { Stock, [market |-> "sh", digits |-> << 0, 0, 0, 0, 0, 1 >>] },
         k \in { "30min", "60min" },
         t \in { Ts(1, 690), Ts(2, 630), Ts(2, 690) } }

\* the rows of the realtime table the reader of (code, k_type) sees
RowsOf(table) ==
    { row.datetime : row \in { x \in table : x.code = code /\ x.kline_type = k_type } }

\* the DELETE has no condition on code or kline_type
SweepTable(table) ==
    { row \in table : _cleanup_old_realtime_data({ row.datetime }) # {} }

SweepInit ==
    /\ epoch = [year |-> 2024, doy |-> 0]
    /\ holidays = {0}
    /\ today = 2
    /\ clock = Clocks[1]
    /\ code = Stock
    /\ fault = "none"
    /\ k_type = "60min"
    /\ list_date = NoDate
    /\ hist \in SUBSET { Ts(1, 630), Ts(2, 630) }
    /\ all_rt \in SUBSET SweepRows
    /\ rt = RowsOf(all_rt)
    /\ deleted_count = 0
    /\ WriteOff
    /\ HarnessOff
    /\ IdleRead
    /\ reads = 0
    /\ served = {}
    /\ routed = NoRouted
    /\ SnapOff
    /\ RuleOff
    /\ BatchOff

\* _cleanup_old_realtime_data: execute, rowcount, commit
Sweep ==
    /\ all_rt' = SweepTable(all_rt)
    /\ rt' = _cleanup_old_realtime_data(rt)
    /\ deleted_count' = Cardinality(all_rt \ SweepTable(all_rt))
    /\ UNCHANGED << calendarVars, clockVars, code, fault, k_type, list_date, hist,
                    readVars, reads, served, routed, snapVars, ruleVars,
                    batchVars, writeVars,
                    harnessVars >>

SweepDay ==
    /\ today + 1 \in SweepDays
    /\ today' = today + 1
    /\ UNCHANGED << calendarVars, clock, code, fault, k_type, list_date,
                    storeVars, readVars, reads, served, routed, snapVars,
                    ruleVars, batchVars, sweepVars, writeVars,
                    harnessVars >>

SweepNext == Sweep \/ SweepDay

SweepSpec == SweepInit /\ [][SweepNext]_vars

----------------------------------------------------------------------------
(* The fault harness: reads made on Wednesday 2024-01-03 from empty stores, *)
(* in which the operations of one kind can raise.                           *)

FaultInit ==
    /\ epoch = [year |-> 2024, doy |-> 0]
    /\ holidays = {0}
    /\ today = 2
    /\ clock \in { Clocks[i] : i \in 1 .. Len(Clocks) }
    /\ code = Stock
    /\ fault \in Faults
    /\ k_type \in { "60min", "daily" }
    /\ list_date = NoDate
    /\ hist = {}
    /\ rt = {}
    /\ SweepOff
    /\ WriteOff
    /\ HarnessOff
    /\ IdleRead
    /\ reads = 0
    /\ served = {}
    /\ routed = NoRouted
    /\ SnapOff
    /\ RuleOff
    /\ BatchOff

FaultNext ==
    \/ \E b \in Days, e \in Days : NewRead(b, e)
    \/ Query
    \/ DetectGaps
    \/ FetchToday
    \/ Backfill
    \/ Requery
    \/ Emit
    \/ Close

FaultSpec == FaultInit /\ [][FaultNext]_vars

----------------------------------------------------------------------------
(* The upsert harness: the three writers of stock_kline_daily, for one      *)
(* symbol, over two days: the reader's backfill, the intraday router after  *)
(* the close and the backfill driver.                                       *)

MaxWrites == 3

\* Tuesday 2024-01-02 and Wednesday 2024-01-03, the dates of the rows
WriteDates == { 1, 2 }

\* two different (open, high, low, close, volume, amount, turn) of a row
WriteValues == { 10, 11 }

\* the batches over the dates D: one record per date
Batches(D) == UNION { [X -> WriteValues] : X \in SUBSET D \ { {} } }

\* INSERT ... ON CONFLICT (date, code) DO UPDATE SET open = EXCLUDED.open, ...
DoUpdate(table, records) ==
    [d \in DOMAIN table \cup DOMAIN records |->
        IF d \in DOMAIN records THEN records[d] ELSE table[d]]

\* INSERT ... ON CONFLICT (date, code) DO NOTHING
DoNothing(table, records) ==
    [d \in DOMAIN table \cup DOMAIN records |->
        IF d \in DOMAIN table THEN table[d] ELSE records[d]]

Write(writer, records) == [writer |-> writer, records |-> records]

WriteInit ==
    /\ epoch = [year |-> 2024, doy |-> 0]
    /\ holidays = {0}
    /\ today = 2
    /\ clock = Clocks[Len(Clocks)]
    /\ code = Stock
    /\ fault = "none"
    /\ k_type = "daily"
    /\ list_date = NoDate
    /\ hist = {}
    /\ rt = {}
    /\ SweepOff
    /\ WriteOff
    /\ HarnessOff
    /\ IdleRead
    /\ reads = 0
    /\ served = {}
    /\ routed = NoRouted
    /\ SnapOff
    /\ RuleOff
    /\ BatchOff

\* CTimescaleStockAPI._save_to_database: the rows of a gap, days before today
_save_to_database ==
    /\ Len(writes) < MaxWrites
    /\ \E records \in Batches({ d \in WriteDates : d < today }) :
          /\ kline_table' = DoUpdate(kline_table, records)
          /\ writes' = Append(writes, Write("reader", records))
    /\ UNCHANGED << calendarVars, clockVars, code, fault, k_type, list_date,
                    storeVars, readVars, reads, served, routed, snapVars,
                    ruleVars, batchVars, sweepVars,
                    harnessVars >>

\* RealtimeDataUpdater._save_to_history_table: today's day candle, after 15:00
_save_to_history_table ==
    /\ Len(writes) < MaxWrites
    /\ DailyFinished(clock)
    /\ today \in WriteDates
    /\ \E records \in Batches({ today }) :
          /\ kline_table' = DoUpdate(kline_table, records)
          /\ writes' = Append(writes, Write("router", records))
    /\ UNCHANGED << calendarVars, clockVars, code, fault, k_type, list_date,
                    storeVars, readVars, reads, served, routed, snapVars,
                    ruleVars, batchVars, sweepVars,
                    harnessVars >>

\* BatchStockDataImporter.save_to_database: the rows of a symbol, days before
\* today
save_to_database ==
    /\ Len(writes) < MaxWrites
    /\ \E records \in Batches({ d \in WriteDates : d < today }) :
          /\ kline_table' = DoNothing(kline_table, records)
          /\ writes' = Append(writes, Write("driver", records))
    /\ UNCHANGED << calendarVars, clockVars, code, fault, k_type, list_date,
                    storeVars, readVars, reads, served, routed, snapVars,
                    ruleVars, batchVars, sweepVars,
                    harnessVars >>

\* Thursday 2024-01-04 begins
WriteDay ==
    /\ today = 2
    /\ today' = 3
    /\ UNCHANGED << calendarVars, clock, code, fault, k_type, list_date,
                    storeVars, readVars, reads, served, routed, snapVars,
                    ruleVars, batchVars, sweepVars, writeVars,
                    harnessVars >>

WriteNext ==
    \/ _save_to_database
    \/ _save_to_history_table
    \/ save_to_database
    \/ WriteDay

WriteSpec == WriteInit /\ [][WriteNext]_vars

----------------------------------------------------------------------------
(* The session harness: _fetch_and_save_from_baostock, do_init and do_close  *)
(* called from two threads of one process.  A vendor call is in progress     *)
(* from the step that enters it to the step in which it returns; the vendor  *)
(* may expire the session at any moment.                                     *)

MaxFetches == 2

\* the positions at which a thread is inside a bulk-vendor call
InVendorCall == { "login", "query", "logout" }

\* a result object of the vendor library is truthy whatever its error_code
Truthy(r) == r # "None"

BsCall(op, res) == [op |-> op, res |-> res]

\* what the session harness leaves alone
sessRest == << calendarVars, clockVars, code, fault, k_type, list_date,
               storeVars, readVars, reads, served, routed, snapVars, ruleVars,
               batchVars, sweepVars, writeVars, connVars >>

SessionInit ==
    /\ epoch = [year |-> 2024, doy |-> 0]
    /\ holidays = {0}
    /\ today = 2
    /\ clock = Clocks[1]
    /\ k_type = "daily"
    /\ list_date = NoDate
    /\ hist = {}
    /\ rt = {}
    /\ code = Stock
    /\ fault = "none"
    /\ SweepOff
    /\ WriteOff
    /\ SessionOff
    /\ ConnOff
    /\ IdleRead
    /\ reads = 0
    /\ served = {}
    /\ routed = NoRouted
    /\ SnapOff
    /\ RuleOff
    /\ BatchOff

\* get_kl_data: the loop calls self._fetch_and_save_from_baostock for a gap
FetchBegin(t) ==
    /\ t_pc[t] = "idle"
    /\ t_n[t] < MaxFetches
    /\ t_n' = [t_n EXCEPT ![t] = @ + 1]
    /\ t_log' = [t_log EXCEPT ![t] = << >>]
    /\ t_pc' = [t_pc EXCEPT ![t] = "check"]
    /\ UNCHANGED << is_connect, bs_server, sessRest >>

\* _fetch_and_save_from_baostock: if not self.is_connect: self.__class__.do_init()
CheckConnect(t) ==
    /\ t_pc[t] = "check"
    /\ t_pc' = [t_pc EXCEPT ![t] = IF Truthy(is_connect) THEN "ready" ELSE "init"]
    /\ UNCHANGED << is_connect, bs_server, t_log, t_n, sessRest >>

\* do_init: if not cls.is_connect: the call of bs.login() begins
do_init(t) ==
    /\ t_pc[t] = "init"
    /\ t_pc' = [t_pc EXCEPT ![t] = IF Truthy(is_connect) THEN "ready" ELSE "login"]
    /\ UNCHANGED << is_connect, bs_server, t_log, t_n, sessRest >>

\* do_init: cls.is_connect = bs.login(); the result is kept whether the vendor
\* accepted the login (error_code "0") or rejected it, and only logged
LoginReturns(t) ==
    /\ t_pc[t] = "login"
    /\ \E accepted \in BOOLEAN :
          LET res == IF accepted THEN "ok" ELSE "rejected"
          IN  /\ is_connect' = res
              /\ bs_server' = IF accepted THEN "valid" ELSE bs_server
              /\ t_log' = [t_log EXCEPT ![t] = Append(@, BsCall("login", res))]
    /\ t_pc' = [t_pc EXCEPT ![t] = "ready"]
    /\ UNCHANGED << t_n, sessRest >>

\* _fetch_and_save_from_baostock: the call of bs.query_history_k_data_plus begins
QueryBegin(t) ==
    /\ t_pc[t] = "ready"
    /\ t_pc' = [t_pc EXCEPT ![t] = "query"]
    /\ UNCHANGED << is_connect, bs_server, t_log, t_n, sessRest >>

\* _fetch_and_save_from_baostock: the query returns; on rs.error_code != "0"
\* the error is logged and the function returns, otherwise the rows are saved
QueryReturns(t) ==
    /\ t_pc[t] = "query"
    /\ LET res == CASE bs_server = "valid"   -> "rows"
                    [] bs_server = "expired" -> "session_expired"
                    [] OTHER                 -> "not_logged_in"
       IN  t_log' = [t_log EXCEPT ![t] = Append(@, BsCall("query", res))]
    /\ t_pc' = [t_pc EXCEPT ![t] = "idle"]
    /\ UNCHANGED << is_connect, bs_server, t_n, sessRest >>

\* do_close: if cls.is_connect: the call of bs.logout() begins
do_close(t) ==
    /\ t_pc[t] = "idle"
    /\ t_n[t] < MaxFetches
    /\ Truthy(is_connect)
    /\ t_n' = [t_n EXCEPT ![t] = @ + 1]
    /\ t_log' = [t_log EXCEPT ![t] = << >>]
    /\ t_pc' = [t_pc EXCEPT ![t] = "logout"]
    /\ UNCHANGED << is_connect, bs_server, sessRest >>

\* do_close: bs.logout() returns; cls.is_connect = None
LogoutReturns(t) ==
    /\ t_pc[t] = "logout"
    /\ is_connect' = "None"
    /\ bs_server' = "none"
    /\ t_log' = [t_log EXCEPT ![t] = Append(@, BsCall("logout", "ok"))]
    /\ t_pc' = [t_pc EXCEPT ![t] = "idle"]
    /\ UNCHANGED << t_n, sessRest >>

\* the vendor silently expires the session
SessionExpires ==
    /\ bs_server = "valid"
    /\ bs_server' = "expired"
    /\ UNCHANGED << is_connect, t_pc, t_log, t_n, sessRest >>

SessionNext ==
    \/ \E t \in Threads : FetchBegin(t)
    \/ \E t \in Threads : CheckConnect(t)
    \/ \E t \in Threads : do_init(t)
    \/ \E t \in Threads : LoginReturns(t)
    \/ \E t \in Threads : QueryBegin(t)
    \/ \E t \in Threads : QueryReturns(t)
    \/ \E t \in Threads : do_close(t)
    \/ \E t \in Threads : LogoutReturns(t)
    \/ SessionExpires

SessionSpec == SessionInit /\ [][SessionNext]_vars

----------------------------------------------------------------------------
(* The connection harness: get_kl_data statement by statement, as the       *)
(* generator it is, on a psycopg connection that is not in autocommit: the   *)
(* first statement after connect, commit or rollback opens a transaction,    *)
(* which stays open until the next commit or rollback, and a failed          *)
(* statement leaves it aborted.  Every database statement may fail.          *)

MaxGaps == 2
MaxYield == 2

VendorCall(call, state) == [call |-> call, txn |-> state]

\* what the connection harness leaves alone
connRest == << calendarVars, clockVars, code, fault, k_type, list_date,
               storeVars, readVars, reads, served, routed, snapVars, ruleVars,
               batchVars, sweepVars, writeVars, bs_server, t_pc, t_log, t_n >>

ConnInit ==
    /\ epoch = [year |-> 2024, doy |-> 0]
    /\ holidays = {0}
    /\ today = 2
    /\ clock = Clocks[1]
    /\ k_type \in { "60min", "daily" }
    /\ list_date = NoDate
    /\ hist = {}
    /\ rt = {}
    /\ code \in Codes
    /\ fault = "none"
    /\ SweepOff
    /\ WriteOff
    /\ SessionOff
    /\ db_conn = "None"
    /\ txn = "none"
    /\ g_pc = "new"
    /\ g_in = NoInput
    /\ g_i = 0
    /\ vendor_log = << >>
    /\ g_exit = "running"
    /\ IdleRead
    /\ reads = 0
    /\ served = {}
    /\ routed = NoRouted
    /\ SnapOff
    /\ RuleOff
    /\ BatchOff

\* a statement executed on the connection in state t: it raises when the
\* transaction is aborted and may raise for a reason of its own
Execute(t) == IF t = "inerror" THEN { FALSE } ELSE BOOLEAN

\* the stage after _fetch_today_data_if_needed
AfterToday == IF g_in.gaps > 0 THEN "backfill" ELSE "emit"

\* the consumer asks for the first row: the body of get_kl_data starts to run
GenStart ==
    /\ g_pc = "new"
    /\ \E n \in 0 .. MaxGaps, t \in BOOLEAN, r \in 0 .. MaxYield :
          g_in' = [gaps |-> n, today_in |-> t, rows |-> r]
    /\ g_pc' = "connect"
    /\ UNCHANGED << db_conn, txn, g_i, vendor_log, g_exit, is_connect, connRest >>

\* _connect_db: psycopg.connect and cursor(); except: log, raise
_connect_db ==
    /\ g_pc = "connect"
    /\ \E ok \in BOOLEAN :
          IF ok
          THEN /\ db_conn' = "open"
               /\ txn' = "idle"
               /\ g_pc' = "query"
               /\ UNCHANGED g_exit
          ELSE /\ g_exit' = "connect_error"
               /\ g_pc' = "finally"
               /\ UNCHANGED << db_conn, txn >>
    /\ UNCHANGED << g_in, g_i, vendor_log, is_connect, connRest >>

\* get_kl_data: db_data = list(self._query_from_database()): the SELECT opens a
\* transaction that nothing commits; except: log, raise
GenQuery ==
    /\ g_pc = "query"
    /\ \E ok \in Execute(txn) :
          IF ok
          THEN /\ txn' = "intrans"
               /\ g_pc' = IF g_in.today_in THEN "sweep" ELSE AfterToday
               /\ UNCHANGED g_exit
          ELSE /\ txn' = "inerror"
               /\ g_exit' = "stage_error"
               /\ g_pc' = "finally"
    /\ UNCHANGED << db_conn, g_in, g_i, vendor_log, is_connect, connRest >>

\* _fetch_today_data_if_needed: _cleanup_old_realtime_data: DELETE, commit;
\* its exception is logged there, with no rollback
GenSweep ==
    /\ g_pc = "sweep"
    /\ \E ok \in Execute(txn) : txn' = IF ok THEN "idle" ELSE "inerror"
    /\ g_pc' = "route"
    /\ UNCHANGED << db_conn, g_in, g_i, vendor_log, g_exit, is_connect, connRest >>

\* update_realtime_kline_smart up to the vendor call: nothing for an index at
\* a minute resolution; otherwise _check_today_data_exists runs its SELECTs on
\* the reader's cursor and, when they raise, answers False
GenRoute ==
    /\ g_pc = "route"
    /\ IF is_index_code(code) /\ IsMinute(k_type)
       THEN /\ g_pc' = AfterToday
            /\ UNCHANGED txn
       ELSE \E ok \in Execute(txn), fresh \in BOOLEAN :
               /\ txn' = IF ok THEN "intrans" ELSE "inerror"
               /\ g_pc' = IF ok /\ fresh THEN AfterToday ELSE "pull"
    /\ UNCHANGED << db_conn, g_in, g_i, vendor_log, g_exit, is_connect, connRest >>

\* _update_minute_smart / _update_daily_smart: the intraday vendor is called;
\* the frame it returns is saved with a commit and no rollback, and whatever
\* is raised here is logged by _fetch_today_data_if_needed
GenPull ==
    /\ g_pc = "pull"
    /\ vendor_log' = Append(vendor_log, VendorCall("intraday", txn))
    /\ \E outcome \in { "raises", "empty", "rows" } :
          IF outcome = "rows"
          THEN \E ok \in Execute(txn) : txn' = IF ok THEN "idle" ELSE "inerror"
          ELSE UNCHANGED txn
    /\ g_pc' = AfterToday
    /\ UNCHANGED << db_conn, g_in, g_i, g_exit, is_connect, connRest >>

\* one turn of the loop over missing_ranges: _fetch_and_save_from_baostock
\* logs in when is_connect is falsy, queries the bulk vendor, and hands the
\* rows to _save_to_database: commit, or rollback and raise
GenBackfill ==
    /\ g_pc = "backfill"
    /\ g_i < g_in.gaps
    /\ \E accepted \in BOOLEAN, outcome \in { "raises", "error", "empty", "rows" } :
          /\ IF Truthy(is_connect)
             THEN /\ vendor_log' = Append(vendor_log, VendorCall("bulk_query", txn))
                  /\ UNCHANGED is_connect
             ELSE /\ vendor_log' = vendor_log \o << VendorCall("bulk_login", txn),
                                                   VendorCall("bulk_query", txn) >>
                  /\ is_connect' = IF accepted THEN "ok" ELSE "rejected"
          /\ \E ok \in Execute(txn) :
                IF outcome = "raises" \/ (outcome = "rows" /\ ~ok)
                THEN /\ txn' = IF outcome = "rows" THEN "idle" ELSE txn
                     /\ g_exit' = "stage_error"
                     /\ g_pc' = "finally"
                     /\ UNCHANGED g_i
                ELSE /\ txn' = IF outcome = "rows" THEN "idle" ELSE txn
                     /\ g_i' = g_i + 1
                     /\ g_pc' = IF g_i + 1 = g_in.gaps THEN "requery" ELSE "backfill"
                     /\ UNCHANGED g_exit
    /\ UNCHANGED << db_conn, g_in, connRest >>

\* get_kl_data: the second db_data = list(self._query_from_database())
GenRequery ==
    /\ g_pc = "requery"
    /\ \E ok \in Execute(txn) :
          IF ok
          THEN /\ txn' = "intrans"
               /\ g_pc' = "emit"
               /\ g_i' = 0
               /\ UNCHANGED g_exit
          ELSE /\ txn' = "inerror"
               /\ g_exit' = "stage_error"
               /\ g_pc' = "finally"
               /\ UNCHANGED g_i
    /\ UNCHANGED << db_conn, g_in, vendor_log, is_connect, connRest >>

\* get_kl_data: yield kline_unit: the generator is suspended with one more
\* row handed to the consumer
GenYield ==
    /\ g_pc \in { "emit", "yielded" }
    /\ g_i < g_in.rows
    /\ g_i' = g_i + 1
    /\ g_pc' = "yielded"
    /\ UNCHANGED << db_conn, txn, g_in, vendor_log, g_exit, is_connect, connRest >>

\* get_kl_data: the loop over db_data ends and the body falls into finally
GenExhausted ==
    /\ g_pc \in { "emit", "yielded" }
    /\ g_i = g_in.rows
    /\ g_exit' = "exhausted"
    /\ g_pc' = "finally"
    /\ UNCHANGED << db_conn, txn, g_in, g_i, vendor_log, is_connect, connRest >>

\* the consumer drops the generator while it is suspended at a yield:
\* GeneratorExit is raised there and the body falls into finally
GenAbandon ==
    /\ g_pc = "yielded"
    /\ g_exit' = "abandoned"
    /\ g_pc' = "finally"
    /\ UNCHANGED << db_conn, txn, g_in, g_i, vendor_log, is_connect, connRest >>

\* the connection is closed only after the stream was exhausted
_close_db_OnExhaustionOnly ==
    /\ g_pc = "finally"
    /\ db_conn' = IF db_conn = "open" /\ g_exit = "exhausted" THEN "closed" ELSE db_conn
    /\ txn' = IF db_conn = "open" /\ g_exit = "exhausted" THEN "none" ELSE txn
    /\ g_pc' = "ended"
    /\ UNCHANGED << g_in, g_i, vendor_log, g_exit, is_connect, connRest >>

\* get_kl_data: finally: self._close_db(): if self.db_conn: self.db_conn.close();
\* an exception on its way out goes on to the caller
_close_db ==
    /\ g_pc = "finally"
    /\ db_conn' = IF db_conn = "open" THEN "closed" ELSE db_conn
    /\ txn' = "none"
    /\ g_pc' = "ended"
    /\ UNCHANGED << g_in, g_i, vendor_log, g_exit, is_connect, connRest >>

ConnNext ==
    \/ GenStart
    \/ _connect_db
    \/ GenQuery
    \/ GenSweep
    \/ GenRoute
    \/ GenPull
    \/ GenBackfill
    \/ GenRequery
    \/ GenYield
    \/ GenExhausted
    \/ GenAbandon
    \/ _close_db

ConnSpec == ConnInit /\ [][ConnNext]_vars

----------------------------------------------------------------------------
(* The partial-backfill harness: reads made on Saturday 2024-01-06 of a     *)
(* store that holds the candles of Wednesday only, so that a read has a      *)
(* leading and a trailing gap; an upsert can fail and the read can be         *)
(* cancelled inside the loop over the gaps.                                  *)

\* the rows of stock_kline_<k_type> before the reads: those of day 2
PartialStore == _prepare_insert_records(BulkRows(k_type, 2, 2))

PartialInit ==
    /\ epoch = [year |-> 2024, doy |-> 0]
    /\ holidays = {0}
    /\ today = 5
    /\ clock = Clocks[1]
    /\ code = Stock
    /\ fault = "reader_save"
    /\ k_type \in { "60min", "daily" }
    /\ list_date = NoDate
    /\ hist = PartialStore
    /\ rt = {}
    /\ SweepOff
    /\ WriteOff
    /\ HarnessOff
    /\ IdleRead
    /\ reads = 0
    /\ served = {}
    /\ routed = NoRouted
    /\ SnapOff
    /\ RuleOff
    /\ BatchOff

\* the cancellation undoing the gaps the read had already backfilled
Interrupt_UndoesEarlierGaps ==
    /\ pc = "backfill"
    /\ gap_i <= Len(missing_ranges)
    /\ hist' = hist \ UNION { _fetch_and_save_from_baostock(missing_ranges[j][1],
                                                            missing_ranges[j][2]) :
                              j \in 1 .. (gap_i - 1) }
    /\ failed' = TRUE
    /\ pc' = "done"
    /\ UNCHANGED << calendarVars, clockVars, code, fault, k_type, list_date, rt,
                    conn, req, begin_date, end_date, db_data, missing_ranges,
                    gap_i, bulk_log, ak_calls, output, reads, served, snapVars,
                    ruleVars, batchVars, routed, sweepVars, writeVars,
                    harnessVars >>

\* get_kl_data: the read is cancelled inside the loop over missing_ranges,
\* before the vendor is asked for the gap at hand: the exception leaves through
\* finally; the upserts of the earlier gaps were committed one by one
Interrupt ==
    /\ pc = "backfill"
    /\ gap_i <= Len(missing_ranges)
    /\ hist' = hist
    /\ failed' = TRUE
    /\ pc' = "done"
    /\ UNCHANGED << calendarVars, clockVars, code, fault, k_type, list_date, rt,
                    conn, req, begin_date, end_date, db_data, missing_ranges,
                    gap_i, bulk_log, ak_calls, output, reads, served, snapVars,
                    ruleVars, batchVars, routed, sweepVars, writeVars,
                    harnessVars >>

PartialNext ==
    \/ \E b \in Days, e \in Days : NewRead(b, e)
    \/ Query
    \/ DetectGaps
    \/ FetchToday
    \/ Backfill
    \/ Interrupt
    \/ Requery
    \/ Emit
    \/ Close

PartialSpec == PartialInit /\ [][PartialNext]_vars

----------------------------------------------------------------------------
(* The race harness: on one day, sweeps of other reads run before and       *)
(* after the intraday query of a read of (code, k_type), in any order.  The  *)
(* DELETE and the SELECT are one statement each.                             *)

\* the intraday query without its condition on the date
sql_realtime_AnyDate(table) ==
    { row.datetime : row \in { x \in table : x.code = code /\ x.kline_type = k_type } }

\* _query_from_database: sql_realtime: the rows of stock_kline_realtime WHERE
\* code = %s AND kline_type = %s AND datetime::date = CURRENT_DATE
sql_realtime(table) ==
    { row.datetime : row \in { x \in table : /\ x.code = code
                                            /\ x.kline_type = k_type
                                            /\ DateOf(x.datetime) = today } }

RaceInit ==
    /\ epoch = [year |-> 2024, doy |-> 0]
    /\ holidays = {0}
    /\ today \in SweepDays
    /\ clock = Clocks[1]
    /\ code \in { Stock, [market |-> "sh", digits |-> << 0, 0, 0, 0, 0, 1 >>] }
    /\ fault = "none"
    /\ k_type \in { "30min", "60min" }
    /\ list_date = NoDate
    /\ hist = {}
    /\ all_rt \in SUBSET SweepRows
    /\ rt = RowsOf(all_rt)
    /\ deleted_count = 0
    /\ WriteOff
    /\ HarnessOff
    /\ IdleRead
    /\ reads = 0
    /\ served = {}
    /\ routed = NoRouted
    /\ SnapOff
    /\ RuleOff
    /\ BatchOff

\* _query_from_database of a read that covers today: realtime_rows =
\* self.db_cursor.fetchall() after sql_realtime, in the order of datetime
ReadIntraday ==
    /\ reads < MaxReads
    /\ reads' = reads + 1
    /\ db_data' = SortedSeq(sql_realtime(all_rt))
    /\ UNCHANGED << calendarVars, clockVars, code, fault, k_type, list_date,
                    storeVars, conn, pc, req, begin_date, end_date,
                    missing_ranges, gap_i, bulk_log, ak_calls, failed, output,
                    served, routed, snapVars, ruleVars, batchVars, sweepVars,
                    writeVars, harnessVars >>

\* the sweeps are those of other reads, of this process or of another one
RaceNext == ReadIntraday \/ Sweep

RaceSpec == RaceInit /\ [][RaceNext]_vars

----------------------------------------------------------------------------
(* Claims *)

ReadDone == pc = "done" /\ ~failed

\* C1: the stream a read emits holds no end_ts twice (no end_ts both as a
\* historical row and as an intraday row).
C1_NoDuplicateEndTs ==
    \A i, j \in 1 .. Len(output) : i # j => output[i].ts # output[j].ts

\* C2: the stream a read emits is strictly increasing in end_ts.
C2_StrictlyIncreasing ==
    \A i \in 1 .. (Len(output) - 1) : output[i].ts < output[i + 1].ts

\* the instant at which the candle of an intraday row is sealed, and the key of
\* that candle in the historical table
SealInstant(t) == IF IsMinute(k_type) THEN t ELSE Ts(DateOf(t), AFTERNOON_END)
HistKey(t) == IF IsMinute(k_type) THEN t ELSE Ts(DateOf(t), 0)

\* C3: seal promotion: after a completed read whose window includes today, every
\* candle of today that an earlier read wrote to the intraday store while it was
\* forming and that is sealed by now is in the historical store.
C3_SealPromotion ==
    (ReadDone /\ begin_date <= today /\ today <= end_date)
        => \A t \in rt : (DateOf(t) = today /\ Now >= SealInstant(t))
                            => HistKey(t) \in hist

\* C4: no gap at the seam: an end_ts of day D that a read emitted during D is
\* emitted by every completed read of a later day whose window covers D.
C4_NoGapAtSeam ==
    ReadDone
        => \A t \in served :
              (DateOf(t) < today /\ begin_date <= DateOf(t) /\ DateOf(t) <= end_date)
                  => t \in OutTs(output)

\* C5: gap closure: after a completed read of a window entirely in the past, a
\* second read with the same arguments (which queries the stores as the first left
\* them and runs the gap detector on the result) finds no missing range, hence
\* issues no bulk-vendor fetch.  Stated for the reads that found candles.
C5_GapClosure ==
    (ReadDone /\ req.e < today /\ begin_date <= end_date /\ output # << >>)
        => _find_missing_ranges(_query_from_database) = << >>

\* C6: a read whose window is empty after clamping and snapping (begin > end)
\* emits nothing and calls neither vendor.
C6_EmptyWindowEmitsNothing ==
    (pc = "done" /\ begin_date > end_date)
        => (output = << >> /\ bulk_log = << >> /\ ak_calls = 0)

C8_IntradayAfterHistorical ==
    \A i, j \in 1 .. Len(output) :
        (output[i].src = "r" /\ output[j].src = "h") => output[j].ts < output[i].ts

\* C9: the stream of a completed read is the merge of the two stores as they
\* stand after all the writes of that read.
C9_OutputIsFinalMerge ==
    ReadDone => output = _query_from_database

\* C10: snap is idempotent: snap(snap(d, dir), dir) = snap(d, dir).
C10_SnapIdempotent ==
    snap_pc = "done" => snap_r2 = snap_r1

\* C10 witness: a date that is no trading day and has none within 30 attempts
C10_Witness ==
    /\ snap_pc = "done"
    /\ ~is_trading_day(snap_d)
    /\ snap_r1 = snap_d

\* a trading day as the calendar contract states it: a weekday that is not a
\* listed holiday, the holiday table being consulted only for 2004-2026
C11_TradingDay(d) ==
    /\ Weekday(d) < 5
    /\ (SupportedFrom <= YearOf(d) /\ YearOf(d) <= SupportedTo) => d \notin holidays

C11_Nearest(d, direction) ==
    LET steps == { n \in 1 .. max_attempts : C11_TradingDay(d + n * Delta(direction)) }
    IN  IF steps = {} THEN d
        ELSE d + (CHOOSE n \in steps : \A m \in steps : n <= m) * Delta(direction)

\* C11: adjust_to_trading_day returns d when d is a trading day (a weekday that
\* is no listed holiday; any weekday outside 2004-2026); otherwise the nearest
\* trading day strictly after (forward) or before (backward) d within 30 calendar
\* days, and d itself when there is none.
C11_AdjustContract ==
    snap_pc \in {"once", "done"}
        => snap_r1 = IF C11_TradingDay(snap_d) THEN snap_d
                     ELSE C11_Nearest(snap_d, snap_dir)

\* C11 witness: a listed holiday of 2026 snapped forward onto a weekday of 2027
\* that the holiday table lists
C11_Witness ==
    /\ snap_pc = "once"
    /\ ~is_trading_day(snap_d)
    /\ snap_r1 # snap_d
    /\ YearOf(snap_r1) > SupportedTo
    /\ snap_r1 \in holidays

\* the walk began: the first login was accepted
WalkStarted == bs_log # << >> /\ bs_log[1].ok

LoginRejected == \E i \in 1 .. Len(bs_log) : bs_log[i].op = "login" /\ ~bs_log[i].ok

LogIdx(op) == { i \in 1 .. Len(bs_log) : bs_log[i].op = op }

\* C13: session rotation: one login before the first symbol; logout then login
\* exactly after the N-th, 2N-th, ... processed symbol when a further symbol
\* remains; one logout after the last symbol; with N = 2 and five symbols walked
\* exactly 3 logins; every vendor query lies between a login and the next logout.
C13_SessionRotation ==
    (b_pc = "done" /\ WalkStarted)
        => LET N == b_args.relogin_interval
               p == Len(walked)
               due == { q \in 1 .. p : q % N = 0 /\ q < stocks.len }
           IN  /\ { bs_log[i].at : i \in LogIdx("login") } = {0} \cup due
               /\ Cardinality(LogIdx("login")) = 1 + Cardinality(due)
               /\ \A i \in LogIdx("login") :
                     i > 1 => (bs_log[i - 1].op = "logout"
                                 /\ bs_log[i - 1].at = bs_log[i].at)
               /\ Cardinality(LogIdx("logout")) = Cardinality(due) + 1
               /\ bs_log[Len(bs_log)].op = "logout"
               /\ bs_log[Len(bs_log)].at = p
               /\ \A i \in LogIdx("query") :
                     LET before == { j \in 1 .. (i - 1) : bs_log[j].op # "query" }
                         last   == CHOOSE j \in before : \A x \in before : x <= j
                     IN  bs_log[last].op = "login" /\ bs_log[last].ok
               /\ (N = 2 /\ p = 5) => Cardinality(LogIdx("login")) = 3

\* C13 witness: N = 2, five symbols walked, logins at the start and after the
\* second and the fourth symbol
C13_Witness ==
    /\ b_pc = "done"
    /\ b_args.relogin_interval = 2
    /\ Len(walked) = 5
    /\ { bs_log[i].at : i \in LogIdx("login") } = {0, 2, 4}
    /\ Cardinality(LogIdx("query")) = 5

\* C14: the command line's --start-index i makes the walk begin at the i-th
\* symbol: the symbols processed are exactly universe[i:], truncated to
\* --max-stocks when given.
C14_StartIndexHonoured ==
    (/\ b_pc = "done"
     /\ b_args.cli
     /\ 0 <= b_args.asked
     /\ b_args.asked < total_stocks
     /\ ~LoginRejected)
        => walked = [ j \in 1 .. SliceOf(total_stocks, b_args.asked,
                                         b_args.max_stocks).len
                        |-> b_args.asked + j - 1 ]

\* C15: at the end of batch_import failed_count is the length of failed_stocks
\* and success_count + failed_count is the number of symbols walked.
C15_FailureListComplete ==
    b_pc = "done"
        => /\ failed_count = Len(failed_stocks)
           /\ success_count + failed_count = Len(walked)

\* C16: for a minute resolution, in the mid-day break (11:30 <= now < 13:00)
\* get_kline_at_time returns the candle ending at 11:30 with sealed = true; and
\* whenever it returns sealed = true the returned end satisfies now >= end.
C16_MiddayBreakSealsPrevious ==
    rule_pc = "done"
        => /\ (IsMinute(k_type) /\ MORNING_END <= clock /\ clock < AFTERNOON_START)
                 => (rule_res.end = Ts(today, MORNING_END) /\ rule_res.is_finished)
           /\ rule_res.is_finished => Now >= rule_res.end

\* C17: get_kline_at_time returns the first candle unsealed before the first
\* start, the candle with start <= now < end unsealed inside a candle, the last
\* candle sealed at or after the last end; for the day resolution (09:30, 15:00)
\* with sealed = (now >= 15:00).
C17_CandleAtTime ==
    rule_pc = "done"
        => IF k_type = "daily"
           THEN rule_res = [start |-> Ts(today, MORNING_START),
                            end |-> Ts(today, AFTERNOON_END),
                            is_finished |-> (clock >= AFTERNOON_END)]
           ELSE LET m      == Minutes(k_type)
                    starts == get_all_kline_times(k_type)
                    first  == CHOOSE s \in starts : \A x \in starts : s <= x
                    last   == CHOOSE s \in starts : \A x \in starts : x <= s
                    Candle(s, f) == [start |-> Ts(today, s), end |-> Ts(today, s + m),
                                     is_finished |-> f]
                IN  /\ clock < first => rule_res = Candle(first, FALSE)
                    /\ \A s \in starts :
                          (s <= clock /\ clock < s + m) => rule_res = Candle(s, FALSE)
                    /\ clock >= last + m => rule_res = Candle(last, TRUE)

\* C17 witness: the day candle asked for at 15:00 sharp
C17_Witness ==
    /\ rule_pc = "done"
    /\ k_type = "daily"
    /\ clock = AFTERNOON_END
    /\ rule_res.is_finished

\* the gaps the detector owes for the rows of the historical store in
\* [begin_date, end_date]
C18_HistoricalGaps ==
    IF HistoricalRows = {} THEN << << begin_date, end_date >> >>
    ELSE LET first == DateOf(CHOOSE t \in HistoricalRows : \A x \in HistoricalRows : t <= x)
             last  == DateOf(CHOOSE t \in HistoricalRows : \A x \in HistoricalRows : x <= t)
         IN  (IF begin_date < first
              THEN << << begin_date, _prev_trading_day(first) >> >> ELSE << >>)
             \o
             (IF last < end_date
              THEN << << _next_trading_day(last), end_date >> >> ELSE << >>)

\* C18: the gap detector returns [(begin, end)] when the historical store holds
\* no candle in [begin, end]; otherwise exactly a leading gap
\* (begin, prev_trading_day(first)) iff begin < first and a trailing gap
\* (next_trading_day(last), end) iff last < end, first and last being the first
\* and last candle of the historical store: intraday rows are no coverage.
\* Stated for the windows with begin <= end.
C18_GapsFromHistoricalOnly ==
    (pc = "today" /\ begin_date <= end_date) => missing_ranges = C18_HistoricalGaps

\* C19: intraday routing: a vendor row of today with end e, processed at now,
\* goes to the historical store iff now >= e and to the intraday store, with
\* is_finished = false, iff now < e, never to both in one refresh; every row
\* handed to the historical store is sealed at that instant (for the day
\* resolution e is 15:00 of today).
C19_RoutingBySeal ==
    /\ \A e \in routed.df :
          LET toHist == \E r \in routed.rows : r.e = e /\ r.store = "h"
              toRt   == \E r \in routed.rows :
                            r.e = e /\ r.store = "r" /\ ~r.is_finished
          IN  /\ toHist <=> routed.now >= e
              /\ toRt <=> routed.now < e
              /\ ~(toHist /\ toRt)
    /\ \A r \in routed.rows :
          /\ r.e \in routed.df
          /\ r.store = "h" => (routed.now >= r.e /\ r.key \in hist)
          /\ (r.store = "r" /\ routed.now = Now) => r.key \in rt

\* C19 witness: a refresh at 11:30 sharp that handed the candle ending 11:30 to
\* the historical store and a later candle to the intraday store
C19_Witness ==
    /\ routed.now = Ts(today, MORNING_END)
    /\ \E r \in routed.rows : r.store = "h" /\ r.e = routed.now
    /\ \E r \in routed.rows : r.store = "r" /\ r.e > routed.now

\* C20: every row the router inserts into the intraday store is dated today and
\* has is_finished = false at the instant of insertion, for every resolution
\* and after any sequence of refreshes.
C20_IntradayRowsOfTodayUnfinished ==
    \A r \in routed.rows :
        r.store = "r"
            => /\ DateOf(r.key) = DateOf(routed.now)
               /\ ~r.is_finished
               /\ routed.now < r.e

\* C20 witness: a refresh on a later day than the first one that inserted a
\* row into the intraday store while a row of that day is historical
C20_Witness ==
    /\ ak_calls = MaxRefreshes
    /\ today = 2
    /\ routed.now = Now
    /\ \E r \in routed.rows : r.store = "r"
    /\ \E t \in hist : DateOf(t) = today - 1

\* the number of today's candles of the resolution whose end is not after now
C21_ExpectedFinished ==
    Cardinality({ e \in { Ts(today, s + Minutes(k_type)) :
                             s \in get_all_kline_times(k_type) } : e <= Now })

\* the rows of today the two stores hold
C21_RowsOfToday ==
    Cardinality({ t \in hist : DateOf(t) = today })
        + Cardinality({ t \in rt : DateOf(t) = today })

\* the freshness condition of the claim
C21_Fresh ==
    IF IsMinute(k_type)
    THEN LET expected_finished == C21_ExpectedFinished
         IN  expected_finished >= 1 /\ C21_RowsOfToday >= expected_finished
    ELSE /\ clock >= AFTERNOON_END
         /\ \E t \in hist : DateOf(t) = today

C22_WeekMonthStoredWhole ==
    k_type \in { "weekly", "monthly" }
        => /\ \A r \in routed.rows : r.store # "h"
           /\ k_type = "weekly" => \A t \in hist : LastOfWeek(DateOf(t))

\* C23: the bulk vendor is queried exactly once per gap the gap detector
\* returned, in order, with that gap's (sub_begin, sub_end) as the date range,
\* and not at all when the detector returned no gap: the queries of a read are
\* the gaps handled so far and, once the loop is over, all of them.
C23_OneBulkQueryPerGap ==
    /\ pc \in { "idle", "query", "detect", "today" } => bulk_log = << >>
    /\ pc = "backfill" => bulk_log = SubSeq(missing_ranges, 1, gap_i - 1)
    /\ pc \in { "requery", "emit", "done" } => bulk_log = missing_ranges

\* C23 witness: a read that found a leading and a trailing gap has finished
C23_Witness ==
    /\ ReadDone
    /\ Len(missing_ranges) = 2
    /\ missing_ranges[1] # missing_ranges[2]
    /\ bulk_log = missing_ranges

\* C24: within one read the backfill of every gap comes before the sweep and
\* the intraday refresh: no bulk-vendor backfill stores rows after the
\* intraday vendor was called in the same read.
C24_NoBackfillAfterRefresh ==
    [][ (Len(bulk_log') > Len(bulk_log) /\ hist' # hist) => ak_calls = 0 ]_vars

\* a read is under way whose snapped end is earlier than today
C25_PastRead == pc # "idle" /\ end_date < today

\* C25: a read whose snapped end is earlier than today performs no sweep, no
\* intraday-vendor call and no write to or read from the intraday store (the
\* store is unchanged by its steps and no intraday row is in what it queried
\* or emits); the intraday vendor is called at most once per read, and only
\* when end >= today.
C25_PastReadLeavesIntradayAlone ==
    /\ [](/\ ak_calls <= 1
          /\ C25_PastRead
                => /\ ak_calls = 0
                   /\ routed = NoRouted
                   /\ \A i \in 1 .. Len(db_data) : db_data[i].src # "r"
                   /\ \A i \in 1 .. Len(output) : output[i].src # "r")
    /\ [][ C25_PastRead => (rt' = rt /\ ak_calls' = ak_calls) ]_vars

\* C25 witness: a read of a past window has emitted rows while the intraday
\* store holds a row of an earlier day, which a sweep would have deleted
C25_Witness ==
    /\ ReadDone
    /\ end_date < today
    /\ output # << >>
    /\ \E t \in rt : DateOf(t) < today

\* the read is for a symbol with prefix sh.000 or sz.399 at a minute resolution
C26_IndexMinute ==
    /\ << code.market, code.digits[1], code.digits[2], code.digits[3] >>
          \in { << "sh", 0, 0, 0 >>, << "sz", 3, 9, 9 >> }
    /\ k_type \in { "5min", "15min", "30min", "60min" }

\* C26: an intraday refresh for an index symbol (prefix sh.000 or sz.399) at a
\* minute resolution returns without calling the intraday vendor and without
\* writing to either store (the step of the read that holds the refresh adds
\* no row to a store), and the read then proceeds and emits what the
\* historical store holds for its window.
C26_IndexMinuteRefreshIsNoOp ==
    /\ [](C26_IndexMinute
            => /\ ak_calls = 0
               /\ routed = NoRouted
               /\ ~failed
               /\ pc = "done" => output = Tagged(HistoricalRows, "h"))
    /\ [][ (C26_IndexMinute /\ pc = "today")
              => (pc' # "today" /\ hist' = hist /\ rt' \subseteq rt) ]_vars

\* C26 witness: a read of an index at a minute resolution, over a window that
\* includes today, has emitted rows
C26_Witness ==
    /\ C26_IndexMinute
    /\ ReadDone
    /\ end_date >= today
    /\ output # << >>

\* C27: the sweep deletes all and only the intraday rows with end_ts::date <
\* today, of every symbol and resolution: intraday rows dated today and all
\* historical rows are left unchanged.
C27_SweepDeletesExactlyOldRows ==
    [][ today' = today
          => /\ all_rt' = { row \in all_rt : ~(DateOf(row.datetime) < today) }
             /\ rt' = { t \in rt : ~(DateOf(t) < today) }
             /\ hist' = hist ]_vars

\* C27 witness: a sweep has deleted rows of an earlier day, of two symbols and
\* two resolutions at least, and rows of today are still in the table
C27_Witness ==
    /\ deleted_count >= 4
    /\ \E row \in all_rt : row.code = Stock /\ DateOf(row.datetime) = today
    /\ \E row \in all_rt : row.code # Stock /\ DateOf(row.datetime) = today
    /\ hist # {}

\* C28: a failure of the sweep or of the intraday refresh (vendor error or
\* database error) does not fail the read: the read does not raise, it goes on
\* to query the bulk vendor for every gap, and the rows already committed stay
\* in the stores.
C28_IntradayFailureNotFatal ==
    (fault \in { "sweep", "vendor", "router_save" } /\ IsMinute(k_type))
        => /\ ~failed
           /\ pc = "done" => bulk_log = missing_ranges

\* C29: every batch upsert is atomic and, when it fails, the transaction is
\* rolled back so that later statements on the same connection can run: a
\* failed upsert of the router or of the reader never leaves the connection
\* in an aborted transaction.
C29_FailedUpsertRolledBack ==
    fault \in { "router_save", "reader_save" } => conn # "aborted"

\* the position in writes of the last write of a row dated d, 0 if none
C30_LastWrite(d) ==
    LET at == { i \in 1 .. Len(writes) : d \in DOMAIN writes[i].records }
    IN  IF at = {} THEN 0 ELSE CHOOSE i \in at : \A j \in at : j <= i

\* C30: last writer wins: for any two writes of the same (symbol, resolution,
\* end_ts) to the historical store, by the reader's backfill, the intraday
\* router or the backfill driver in any order, the store afterwards holds the
\* OHLCV values of the later write.
C30_LastWriterWins ==
    \A d \in WriteDates :
        C30_LastWrite(d) # 0
            => /\ d \in DOMAIN kline_table
               /\ kline_table[d] = writes[C30_LastWrite(d)].records[d]

\* C31: a bulk fetch of the reader that fails with a session-expired error is
\* followed, within the same fetch, by a re-login and one more query: the
\* gap is not given up before the retry.
C31_RetryOnceAfterRelogin ==
    \A t \in Threads :
       t_pc[t] = "idle" =>
          \A i \in 1 .. Len(t_log[t]) :
             t_log[t][i] = BsCall("query", "session_expired") =>
                \E j \in (i + 1) .. Len(t_log[t]), k \in (i + 2) .. Len(t_log[t]) :
                   /\ j < k
                   /\ t_log[t][j].op = "login"
                   /\ t_log[t][k].op = "query"

\* C32: the reader issues a bulk query only while the adapter is
\* authenticated: a thread inside the query has the accepted login result in
\* is_connect, also when an earlier login attempt was rejected.
C32_FetchOnlyWhileAuthenticated ==
    \A t \in Threads : t_pc[t] = "query" => is_connect = "ok"

\* C33: at most one bulk-vendor call (login, query or logout) is in progress
\* at any moment, and two threads that found the adapter unauthenticated are
\* never both inside login().
C33_OneVendorOperationAtATime ==
    /\ Cardinality({ t \in Threads : t_pc[t] \in InVendorCall }) <= 1
    /\ ~ (\A t \in Threads : t_pc[t] = "login")

\* C34: during a read no database transaction is open on the read's
\* connection at the moment a vendor call (bulk login, bulk query or intraday
\* pull) is issued.
C34_NoTransactionAcrossVendorCall ==
    \A i \in 1 .. Len(vendor_log) : vendor_log[i].txn = "idle"

\* C35: a read that opened its connection has closed it when the read has
\* ended, whether the stream was exhausted, a stage raised or the consumer
\* abandoned the stream; a read whose connection could not be opened ends
\* with that error and nothing else.
C35_ConnectionClosedOnEveryExit ==
    g_pc = "ended" =>
       /\ db_conn # "open"
       /\ txn = "none"
       /\ g_exit \in { "exhausted", "stage_error", "abandoned" } => db_conn = "closed"
       /\ g_exit = "connect_error" <=> db_conn = "None"
       /\ g_exit = "connect_error" => vendor_log = << >> /\ g_i = 0

\* C35 witness: a read whose backfill opened a transaction ended because the
\* consumer abandoned the stream, and its connection is closed
C35_Witness ==
    /\ g_pc = "ended"
    /\ g_exit = "abandoned"
    /\ g_in.gaps > 0
    /\ g_i < g_in.rows
    /\ db_conn = "closed"

\* the rows the bulk vendor returns for the j-th gap of the read in progress
C36_GapRows(j) ==
    _fetch_and_save_from_baostock(missing_ranges[j][1], missing_ranges[j][2])

\* C36: when the backfill of the k-th gap of a read fails, or the read is
\* cancelled there, the rows of the gaps backfilled before it stay in the
\* historical store, and every row the reads persisted is a row the bulk
\* vendor returns for the symbol at the resolution of the read.
C36_PartialBackfillPersists ==
    /\ pc \in { "backfill", "requery", "emit", "done" } =>
          \A j \in 1 .. (gap_i - 1) : C36_GapRows(j) \subseteq hist
    /\ hist \ PartialStore \subseteq
          _prepare_insert_records(BulkRows(k_type, 0, MaxDay))

\* C36 witness: a read with two gaps failed at the second one, of which the
\* vendor has rows, and the rows of the first gap are stored
C36_Witness ==
    /\ pc = "done"
    /\ failed
    /\ Len(missing_ranges) = 2
    /\ gap_i = 2
    /\ C36_GapRows(1) # {}
    /\ C36_GapRows(1) \subseteq hist
    /\ C36_GapRows(2) # {}
    /\ C36_GapRows(2) \cap hist = {}

\* the rows of today of the read's symbol and resolution in the intraday table
C37_RowsOfToday ==
    { row.datetime : row \in { x \in all_rt : /\ x.code = code
                                             /\ x.kline_type = k_type
                                             /\ DateOf(x.datetime) = today } }

\* C37: a sweep that runs before or after the intraday query of a read, on
\* the same day, does not change what the read gets: at every moment the
\* rows the read got are the rows of today the table holds for its symbol and
\* resolution, and a sweep leaves those rows as they are.
C37_SweepNeverChangesIntradayResult ==
    /\ [](reads > 0 => db_data = SortedSeq(C37_RowsOfToday))
    /\ [][ { row \in all_rt' : DateOf(row.datetime) = today }
             = { row \in all_rt : DateOf(row.datetime) = today } ]_vars

\* C37 witness: a read got rows of today, and a sweep that ran in the same
\* day deleted older rows of the same symbol and resolution
C37_Witness ==
    /\ reads > 0
    /\ db_data # << >>
    /\ deleted_count > 0
    /\ \A row \in all_rt : DateOf(row.datetime) = today
    /\ \E row \in all_rt : row.code # code

\* C38: for a minute resolution m, get_all_kline_times returns 240 / m start
\* instants, as many as get_expected_count says, strictly increasing; they
\* are the multiples of m counted from 09:30 and from 13:00, and every candle
\* [start, start + m] ends by 11:30 or lies in 13:00 .. 15:00.  For the day
\* resolution it returns the one start 09:30.
C38_CandleStarts ==
    LET ts == kline_times(k_type)
        m  == Minutes(k_type)
    IN  IF k_type = "daily"
        THEN ts = << 570 >> /\ get_expected_count(k_type) = 1
        ELSE /\ k_type \in { "5min", "15min", "30min", "60min" }
             /\ m \in { 5, 15, 30, 60 }
             /\ Len(ts) * m = 240
             /\ Len(ts) = get_expected_count(k_type)
             /\ \A i \in 1 .. (Len(ts) - 1) : ts[i] < ts[i + 1]
             /\ { ts[i] : i \in 1 .. Len(ts) }
                  = { 570 + j * m : j \in 0 .. (120 \div m - 1) }
                    \cup { 780 + j * m : j \in 0 .. (120 \div m - 1) }
             /\ \A i \in 1 .. Len(ts) :
                   \/ 570 <= ts[i] /\ ts[i] + m <= 690
                   \/ 780 <= ts[i] /\ ts[i] + m <= 900
             /\ { ts[i] : i \in 1 .. Len(ts) } = get_all_kline_times(k_type)

\* C38 witness: the candle clock was asked at 13:00 for the five-minute
\* candle, went through its 48 starts, and answered with the first start of
\* the afternoon
C38_Witness ==
    /\ rule_pc = "done"
    /\ k_type = "5min"
    /\ clock = 780
    /\ Len(kline_times(k_type)) = 48
    /\ rule_res.start = Ts(today, kline_times(k_type)[25])

\* C39: with begin_date and end_date trading days and begin_date <= end_date,
\* every range (sub_begin, sub_end) the gap detector returns satisfies
\* begin_date <= sub_begin <= sub_end <= end_date, and no range contains the
\* date of a candle of the query result the detector was given.
C39_GapRangesWithinWindow ==
    (/\ pc = "today"
     /\ is_trading_day(begin_date)
     /\ is_trading_day(end_date)
     /\ begin_date <= end_date)
    => \A i \in 1 .. Len(missing_ranges) :
          LET sub_begin == missing_ranges[i][1]
              sub_end   == missing_ranges[i][2]
          IN  /\ begin_date <= sub_begin
              /\ sub_begin <= sub_end
              /\ sub_end <= end_date
              /\ \A j \in 1 .. Len(db_data) :
                    ~ (sub_begin <= DateOf(db_data[j].ts) /\ DateOf(db_data[j].ts) <= sub_end)

\* C40: for the day resolution, a read whose window covers today, made while
\* the intraday store holds the forming candle of today that the router wrote,
\* does not fail: it ends with the candle read back under its own date, no
\* field of the stored row taken for another.
C40_DayIntradayRowReadBack ==
    (/\ pc = "done"
     /\ k_type = "daily"
     /\ begin_date <= today
     /\ today <= end_date
     /\ \E t \in rt : DateOf(t) = today)
    => ~failed
====
